---- MODULE Spec2Model ----
(***************************************************************************)
(* Model of the audio-to-translation pipeline of ai_translator:            *)
(*   module/translator_manager.py   TranslatorManager (pipeline manager)   *)
(*   module/translation_callback.py TranslationCallback (bridge)           *)
(*   module/translator_unit.py      TranslatorUnit (orchestrator)          *)
(* Threads are modelled by a program counter each; every action is one     *)
(* step of one thread between two points where another thread may run.    *)
(***************************************************************************)
EXTENDS Integers, Sequences, FiniteSets, TLC

(* ------------------------------ bounds -------------------------------- *)
\* frames offered to process_audio
MaxFrames == 3
\* capacity of audio_buffer in the model (queue.Queue(maxsize=1024) in the code)
AudioBufferMaxsize == 2
\* stop() calls made by the owner of the manager
MaxStops == 2
\* network errors the recognizer reports through the bridge
MaxNetErrors == 1
\* clock ticks (seconds) that pass during a run
MaxTime == 5
\* direct calls of send_error_notification / send_warning_notification
MaxNotify == 1
\* direct notification calls in a run that follows the dedup records
MaxRepeats == 3
\* the clock at construction; time.time() is far beyond any cooldown
InitialTime == 5
\* events the recognizer delivers to on_event
MaxEvents == 3
\* distinct non-empty texts; a text is modelled by its rank in string order
MaxText == 2
\* start() calls the owner of a manager makes
MaxStarts == 2
\* stop() calls the owner of a TranslatorUnit makes
MaxUnitStops == 2
\* invocations of _check_initial_connection on one unit
MaxChecks == 2
\* modal dialogs after which no further error is handed to the unit
MaxDialogs == 3
\* devices sounddevice lists
MaxDevices == 2
\* start_recording calls on one recorder
MaxRecordings == 2
\* seconds the model follows a stop_recording that waits
MaxStopWait == 5
\* malformed payloads the recognizer delivers to on_event
MaxMalformed == 2
\* error messages the recognizer reports to on_error
MaxErrors == 2
\* words of an error message
MaxWords == 2

(* ------------------------- program constants -------------------------- *)
\* audio_recorder.py:248: max_retries = 5
max_retries == 5
\* audio_recorder.py:256, 303: time.sleep(2)
retry_sleep == 2
\* audio_recorder.py:327: timeout = 3.0
stop_timeout == 3
\* config.py:63: SAMPLE_RATE
ConfigSampleRate == 48000
\* audio_recorder.py:218: the rate when no probe validates
FallbackSampleRate == 16000
\* translator_unit.py:606, 616: join(timeout=2.0), in seconds
JoinTimeout == 2
\* translator_unit.py:253: audio_queue.get(timeout=1.0), in seconds
GetTimeout == 1
error_cooldown == 5
warning_cooldown == 5
\* config.py:96
SENTENCE_ID_ATTACK == 2
\* config.py:52-54
NETWORK_CHECK_TIMEOUT == 10
CONNECTION_CHECK_RETRIES == 3
CONNECTION_CHECK_DELAY == 2
\* translator_unit.py:90: message_state['error_cooldown']
ui_error_cooldown == 5
\* message_center.py:30: the cooldown of critical messages, in seconds
critical_cooldown == 2

(* ------------------------------ threads ------------------------------- *)
Consumers == {"c1", "c2"}
Threads == {"ui", "cb", "prod", "hb"} \cup Consumers
NoThread == "None"
NoFrame == [id |-> 0, ch |-> 0]

\* the threads of a TranslatorUnit: its owner, the audio-forwarding thread
\* and the result thread
UnitThreads == {"main", "process", "result"}

\* the empty string, which sorts before every other text
NoText == 0
\* no sentence id
NoSentence == 0
\* the sentence ids the recognizer gives out
SentenceIds == {1, 2}
\* every id an event can be queued under: a sentence id or a clock value
QueuedIds == SentenceIds \cup (InitialTime..(InitialTime + MaxTime))
NoPair == [original |-> NoText, translated |-> NoText]

VARIABLES
  state,            \* TranslatorManager.state
  stop_event,       \* TranslatorManager._stop_event
  audio_buffer,     \* TranslatorManager.audio_buffer, oldest frame first
  threads,          \* TranslatorManager.threads
  callback,         \* TranslatorManager.callback: "bridge" or "None"
  message_deduplication,
  translator,       \* the recognizer: started, connection alive, call counts
  has_is_running,   \* whether the recognizer object offers is_running()
  now,              \* time.time()
  pc,               \* position of every thread
  held,             \* the frame a consumer took from the buffer
  cstop,            \* consumer: 0 not in stop(), 1 stop() after a send failure,
                    \*           2 stop() from the outer exception handler
  pending,          \* the frame process_audio is about to enqueue
  accepted,         \* frames process_audio enqueued, in order
  send_log,         \* calls of send_audio_frame by the consumers, in order
  warning_calls,    \* invocations of callbacks['warning']
  error_calls,      \* invocations of callbacks['error']
  close_calls,      \* invocations of callback.close()
  nframes, nstarts, nstops, nneterrs,
  current_status,   \* _stop_translator: the status it saved on entry
  nnotify,          \* direct calls of send_*_notification
  overflows,        \* queue.Full raised in process_audio, counted
  overflow_in_cooldown, \* some queue.Full came while the dedup record would
                        \* have suppressed its warning
  notify_log,       \* the direct calls of send_*_notification, in order
  result_queue,     \* TranslatorManager.result_queue, smallest tuple first
  sentence_config,  \* TranslationCallback.sentence_config['counter']
  last_event_time,  \* TranslationCallback.last_event_time
  realtime_calls,   \* invocations of realtime_callback, in order
  nevents,
  arrived,          \* the events on_event put on the queue, in order
  handed,           \* the events get_result handed out, in order
  is_running,       \* TranslatorUnit.thread_state.is_running
  unit_stop_event,  \* TranslatorUnit.thread_state.stop_event
  upc,              \* position of the threads of the unit
  sentence_cache,   \* _process_result: sentence_cache
  current_sentence_id,  \* _process_result: current_sentence_id
  has_result,       \* TranslatorUnit.component_state.has_result
  records,          \* calls of result_recorder.record_translation, in order
  processed,        \* the events the result thread has dealt with, in order
  unit_stop_calls,  \* calls of TranslatorUnit.stop()
  status_reports,   \* calls of result_recorder.report_result_status
  got,              \* the local variable result of _process_result (the
                    \* result thread) and of _save_all_results (main)
  bridge_callbacks, \* TranslationCallback.callbacks: which ones are set
  error_msg,        \* on_error: the text of the message it received last
  network_error_calls,  \* invocations of callbacks['network_error']
  bridge_error_calls,   \* invocations of the bridge's callbacks['error']
  bridge_error_logs,    \* on_error's logs of a message no callback took
  nerrors,
  event_error_logs,     \* logger.error calls of on_event (its except clause)
  event_raised,         \* exceptions that left on_event
  gpc,                  \* get_all_texts: where its caller is
  cpc,                  \* _check_initial_connection: where its caller is
  epc,                  \* _handle_network_error: where its caller is
  attempt,              \* its loop variable
  check_attempts,       \* check_dashscope_connection calls of this invocation
  check_sleeps,         \* time.sleep calls of this invocation
  is_connected,         \* component_state.is_connected
  ui_state,             \* UIState: error bookkeeping and flags; the message
                        \* centre's record of critical messages; the modal
                        \* boxes shown
  network_error_keywords,  \* the messages INFO's keyword list matches
  check_invocations,
  check_result,         \* what the last invocation returned
  ever_connected,       \* a connectivity check has succeeded
  recording,            \* AudioRecorder.recording
  unit_log_closed,      \* the unit has closed its logger
  join_warnings,        \* the threads whose join in stop() timed out
  wait,                 \* seconds left of each unit thread's timed wait
  sd,                   \* the sounddevice library: devices, default, rates
  audio_device_id,      \* AudioRecorder.audio_device['id']
  SAMPLE_RATE,          \* config.SAMPLE_RATE
  rpc,                  \* position of the capture thread
  retry_count,          \* _record_audio's retry_count
  stream_opens,         \* InputStream(...) calls of the capture thread
  slept,                \* seconds the capture thread has slept after failures
  recordings,           \* start_recording calls that started a thread
  spc,                  \* position of the caller of stop_recording
  stop_waited           \* seconds stop_recording has waited for the thread

mvars == <<state, stop_event, audio_buffer, threads, callback,
           message_deduplication, translator, has_is_running, now, pc, held,
           cstop, pending, accepted, send_log, warning_calls, error_calls,
           close_calls, nframes, nstarts, nstops, nneterrs>>

\* _stop_translator's saved status and the count of direct notifications
hvars == <<current_status, nnotify>>

\* observations of process_audio
gvars == <<overflows, overflow_in_cooldown, notify_log>>

\* the bridge's event path and the orchestrator's result path
rvars == <<result_queue, sentence_config, last_event_time, realtime_calls,
           nevents, arrived, handed, is_running, unit_stop_event, upc,
           sentence_cache, current_sentence_id, has_result, records,
           processed>>

\* the orchestrator's stop() and shutdown report
svars == <<unit_stop_calls, status_reports, got>>

\* the bridge's on_error
evars == <<bridge_callbacks, error_msg, network_error_calls,
           bridge_error_calls, bridge_error_logs, nerrors>>

\* the bridge's on_event on malformed payloads, and its get_all_texts
pvars == <<event_error_logs, event_raised, gpc>>

\* the orchestrator's _check_initial_connection and _on_error
kvars == <<cpc, epc, attempt, check_attempts, check_sleeps, is_connected,
           ui_state, network_error_keywords, check_invocations, check_result,
           ever_connected>>

\* the recorder: its devices, its capture thread and stop_recording
dvars == <<sd, audio_device_id, SAMPLE_RATE, rpc, retry_count, stream_opens,
           slept, recordings, spc, stop_waited>>

\* the orchestrator's view of the recorder, its logger and its joins
avars == <<recording, unit_log_closed, join_warnings, wait>>

\* what the unit's stop() call leaves alone
ovars == <<evars, pvars, kvars, dvars>>

yvars == <<svars, ovars, avars>>

xvars == <<hvars, gvars, rvars, yvars>>

vars == <<mvars, xvars>>

(* ------------------------------- frames ------------------------------- *)
\* what the audio thread hands to process_audio: a mono or a stereo frame
InputFrames(n) == {[id |-> n, ch |-> c] : c \in {1, 2}}

\* translator_manager.py:284-285: a two-channel frame becomes one channel
ToMono(frame) ==
  IF frame.ch = 2 THEN [frame EXCEPT !.ch = 1] ELSE frame

(* ---------------------------- construction ---------------------------- *)
\* translator_manager.py:72-75: components after TranslatorManager.__init__
NoComponents == [recorder |-> "None"]

\* translator_manager.py:506-512
set_recorder(comp, recorder) == [comp EXCEPT !.recorder = recorder]

\* translator_unit.py:133: the constructor of the unit that owns the manager
\* attaches the unit's recorder; nothing detaches it afterwards
components == set_recorder(NoComponents, "AudioRecorder")

ManagerInit ==
  /\ state = [running |-> FALSE, translator_status |-> "initialized",
              network_status |-> TRUE, audio_processing_paused |-> FALSE]
  /\ stop_event = FALSE
  /\ audio_buffer = <<>>
  /\ threads = [processing |-> NoThread, heartbeat |-> NoThread]
  /\ callback = "bridge"
  /\ message_deduplication =
       [last_error_message |-> "", last_warning_message |-> "",
        last_error_time |-> 0, last_warning_time |-> 0]
  /\ translator = [started |-> FALSE, conn_ok |-> TRUE,
                   start_calls |-> 0, stop_calls |-> 0]
  /\ has_is_running \in BOOLEAN
  /\ now = InitialTime
  /\ pc = [t \in Threads |-> IF t \in Consumers THEN "unborn" ELSE "idle"]
  /\ held = [c \in Consumers |-> NoFrame]
  /\ cstop = [c \in Consumers |-> 0]
  /\ pending = NoFrame
  /\ accepted = <<>>
  /\ send_log = <<>>
  /\ warning_calls = 0
  /\ error_calls = 0
  /\ close_calls = 0
  /\ nframes = 0
  /\ nstarts = 0
  /\ nstops = 0
  /\ nneterrs = 0
  /\ current_status = "None"
  /\ nnotify = 0
  /\ overflows = 0
  /\ overflow_in_cooldown = FALSE
  /\ notify_log = <<>>
  /\ result_queue = <<>>
  /\ sentence_config = [counter |-> [s \in SentenceIds |-> 0],
                        attack |-> SENTENCE_ID_ATTACK]
  /\ last_event_time = InitialTime
  /\ realtime_calls = <<>>
  /\ nevents = 0
  /\ arrived = <<>>
  /\ handed = <<>>

(* ---------------------------- notifications -------------------------- *)
\* a test that looks at the time of the last error only
ErrorSuppressed_AnyMessage(m) ==
  now - message_deduplication.last_error_time < error_cooldown

\* translator_manager.py:118-121: a repeat of the last error inside the cooldown
ErrorSuppressed(m) ==
  /\ m = message_deduplication.last_error_message
  /\ now - message_deduplication.last_error_time < error_cooldown

\* translator_manager.py:146-149
WarningSuppressed(m) ==
  /\ m = message_deduplication.last_warning_message
  /\ now - message_deduplication.last_warning_time < warning_cooldown

\* send_error_notification(m): the dedup record afterwards ...
ErrorRecordAfter(md, m) ==
  IF ErrorSuppressed(m) THEN md
  ELSE [md EXCEPT !.last_error_message = m, !.last_error_time = now]

\* ... and how many times callbacks['error'] has been invoked afterwards
ErrorCallsAfter(n, m) == IF ErrorSuppressed(m) THEN n ELSE n + 1

WarningRecordAfter(md, m) ==
  IF WarningSuppressed(m) THEN md
  ELSE [md EXCEPT !.last_warning_message = m, !.last_warning_time = now]

WarningCallsAfter(n, m) == IF WarningSuppressed(m) THEN n ELSE n + 1

(* ------------------------------- start() ------------------------------ *)
\* the consumer a start() creates: a fresh Thread object
FreshConsumer == IF pc["c1"] = "unborn" THEN "c1" ELSE "c2"

\* translator_manager.py:186-187. limit bounds the start() calls of a run.
start(limit) ==
  /\ pc["ui"] = "idle"
  /\ nstarts < limit
  /\ \E c \in Consumers : pc[c] = "unborn"
  /\ nstarts' = nstarts + 1
  /\ state' = [state EXCEPT !.running = TRUE]
  /\ stop_event' = FALSE
  /\ pc' = [pc EXCEPT !["ui"] = "start_translator"]
  /\ UNCHANGED xvars
  /\ UNCHANGED <<audio_buffer, threads, callback, message_deduplication,
                 translator, has_is_running, now, held, cstop, pending,
                 accepted, send_log, warning_calls, error_calls, close_calls,
                 nframes, nstops, nneterrs>>

RecognizerStarted(tr) ==
  [tr EXCEPT !.started = TRUE, !.start_calls = tr.start_calls + 1]

RecognizerStartFailed(tr) ==
  [tr EXCEPT !.start_calls = tr.start_calls + 1]

\* translator_manager.py:458-462
handle_translator_start_error(st) ==
  [st EXCEPT !.translator_status = "error"]

\* translator_manager.py:190-192 and 195-197: translator.start() of the
\* recognizer blocks until it is connected, or raises; from its return on
\* the recognizer's callback thread runs, while start() has yet to write the
\* status. Line 195 catches RuntimeError only: any other exception leaves
\* start() with the status and the running flag as they are. A manager that
\* is not "initialized" goes on to the consumer thread. The recognizer
\* connects, raises RuntimeError, or raises an exception of another class
\* (the SDK's InvalidParameter that line 11 imports, a ConnectionError); an
\* exception that leaves the manager's start() leaves the unit's start()
\* too (translator_unit.py:564-582), before the threads of the unit are
\* created.
start_translator ==
  /\ pc["ui"] = "start_translator"
  /\ IF state.translator_status = "initialized"
     THEN \E outcome \in {"ok", "RuntimeError", "InvalidParameter"} :
            IF outcome = "ok"
            THEN /\ translator' = RecognizerStarted(translator)
                 /\ pc' = [pc EXCEPT !["ui"] = "start_running"]
                 /\ UNCHANGED <<state, upc>>
            ELSE IF outcome = "RuntimeError"
            THEN \* _handle_translator_start_error, then return
                 /\ translator' = RecognizerStartFailed(translator)
                 /\ state' = handle_translator_start_error(state)
                 /\ pc' = [pc EXCEPT !["ui"] = "idle"]
                 /\ UNCHANGED upc
            ELSE \* no handler in start()
                 /\ translator' = RecognizerStartFailed(translator)
                 /\ pc' = [pc EXCEPT !["ui"] = "idle"]
                 /\ upc' = IF upc["main"] = "u_translator_start"
                           THEN [upc EXCEPT !["main"] = "idle"] ELSE upc
                 /\ UNCHANGED state
     ELSE /\ pc' = [pc EXCEPT !["ui"] = "start_consumer"]
          /\ UNCHANGED <<translator, state, upc>>
  /\ UNCHANGED <<hvars, gvars, yvars>>
  /\ UNCHANGED <<result_queue, sentence_config, last_event_time,
                 realtime_calls, nevents, arrived, handed, is_running,
                 unit_stop_event, sentence_cache, current_sentence_id,
                 has_result, records, processed>>
  /\ UNCHANGED <<stop_event, audio_buffer, threads, callback,
                 message_deduplication, has_is_running, now, held, cstop,
                 pending, accepted, send_log, warning_calls, error_calls,
                 close_calls, nframes, nstarts, nstops, nneterrs>>

\* translator_manager.py:193: the status is written over whatever it has
\* become since the recognizer was started
start_running ==
  /\ pc["ui"] = "start_running"
  /\ state' = [state EXCEPT !.translator_status = "running"]
  /\ pc' = [pc EXCEPT !["ui"] = "start_consumer"]
  /\ UNCHANGED xvars
  /\ UNCHANGED <<stop_event, audio_buffer, threads, callback,
                 message_deduplication, translator, has_is_running, now, held,
                 cstop, pending, accepted, send_log, warning_calls,
                 error_calls, close_calls, nframes, nstarts, nstops, nneterrs>>

\* translator_manager.py:200-202: a new consumer thread is created and
\* started, and start() returns
start_consumer ==
  /\ pc["ui"] = "start_consumer"
  /\ threads' = [threads EXCEPT !.processing = FreshConsumer]
  /\ pc' = [pc EXCEPT !["ui"] = "idle", ![FreshConsumer] = "c_loop"]
  /\ UNCHANGED xvars
  /\ UNCHANGED <<state, stop_event, audio_buffer, callback,
                 message_deduplication, translator, has_is_running, now, held,
                 cstop, pending, accepted, send_log, warning_calls,
                 error_calls, close_calls, nframes, nstarts, nstops, nneterrs>>

(* ------------------------------- stop() ------------------------------- *)
\* where a thread continues when its stop() returns
StopReturn(t) ==
  IF t = "ui" THEN "idle" ELSE IF t = "cb" THEN "cb_notify" ELSE "c_loop"

\* the owner calls stop()
stop_call ==
  /\ pc["ui"] = "idle"
  /\ nstops < MaxStops
  /\ nstops' = nstops + 1
  /\ pc' = [pc EXCEPT !["ui"] = "stop_guard"]
  /\ UNCHANGED xvars
  /\ UNCHANGED <<state, stop_event, audio_buffer, threads, callback,
                 message_deduplication, translator, has_is_running, now, held,
                 cstop, pending, accepted, send_log, warning_calls,
                 error_calls, close_calls, nframes, nstarts, nneterrs>>

\* a guard that looks at the stop signal only while the manager runs
AlreadyStopped_WhileRunning == state.running /\ stop_event

\* translator_manager.py:208: the test of the guard against a repeated stop()
AlreadyStopped == ~state.running /\ stop_event

\* translator_manager.py:208-209: the guard against a repeated stop()
stop_guard(t) ==
  /\ pc[t] = "stop_guard"
  /\ IF AlreadyStopped
     THEN /\ pc' = [pc EXCEPT ![t] = StopReturn(t)]
          /\ cstop' = IF t \in Consumers THEN [cstop EXCEPT ![t] = 0] ELSE cstop
     ELSE /\ pc' = [pc EXCEPT ![t] = "stop_set"]
          /\ UNCHANGED cstop
  /\ UNCHANGED xvars
  /\ UNCHANGED <<state, stop_event, audio_buffer, threads, callback,
                 message_deduplication, translator, has_is_running, now, held,
                 pending, accepted, send_log, warning_calls, error_calls,
                 close_calls, nframes, nstarts, nstops, nneterrs>>

\* translator_manager.py:212-216: a thread that passed the guard sets the
\* stop signal, clears running and pauses the audio
stop_set(t) ==
  /\ pc[t] = "stop_set"
  /\ stop_event' = TRUE
  /\ state' = [state EXCEPT !.running = FALSE,
                            !.audio_processing_paused = TRUE]
  /\ pc' = [pc EXCEPT ![t] = "stop_recorder"]
  /\ UNCHANGED xvars
  /\ UNCHANGED <<audio_buffer, threads, callback, message_deduplication,
                 translator, has_is_running, now, held, cstop, pending,
                 accepted, send_log, warning_calls, error_calls, close_calls,
                 nframes, nstarts, nstops, nneterrs>>

\* audio_recorder.py:311-318: start_recording on a recorder that is not
\* recording sets the flag and starts a new capture thread
StartRecording ==
  IF ~recording
  THEN /\ recording' = TRUE
       /\ rpc' = "r_loop"
       /\ retry_count' = 0
       /\ stream_opens' = 0
       /\ slept' = 0
       /\ recordings' = recordings + 1
  ELSE UNCHANGED <<recording, rpc, retry_count, stream_opens, slept,
                   recordings>>

\* translator_manager.py:219-228 with audio_recorder.py:320-350: an attached
\* recorder that is recording is stopped: stop_recording clears the flag
\* (323) and returns when the capture thread has ended (328-332: the poll,
\* then thread.join() with no timeout)
stop_recorder(t) ==
  /\ pc[t] \in {"stop_recorder", "stop_recorder_join"}
  /\ IF pc[t] = "stop_recorder" /\ components.recorder # "None" /\ recording
     THEN /\ recording' = FALSE
          /\ pc' = [pc EXCEPT ![t] = "stop_recorder_join"]
     ELSE /\ pc[t] = "stop_recorder_join" => rpc \in {"unborn", "dead"}
          /\ pc' = [pc EXCEPT ![t] = "stop_rec_check"]
          /\ UNCHANGED recording
  /\ UNCHANGED <<hvars, gvars, rvars, svars, ovars, unit_log_closed,
                 join_warnings, wait>>
  /\ UNCHANGED <<state, stop_event, audio_buffer, threads, callback,
                 message_deduplication, translator, has_is_running, now, held,
                 cstop, pending, accepted, send_log, warning_calls,
                 error_calls, close_calls, nframes, nstarts, nstops, nneterrs>>

\* translator_manager.py:231-239: the status test and the is_running() probe
stop_rec_check(t) ==
  /\ pc[t] = "stop_rec_check"
  /\ IF state.translator_status \notin {"stopped", "stopping"}
     THEN IF has_is_running /\ ~translator.started
          THEN \* is_running() is False: mark stopped and return at once
               /\ state' = [state EXCEPT !.translator_status = "stopped"]
               /\ pc' = [pc EXCEPT ![t] = StopReturn(t)]
               /\ cstop' = IF t \in Consumers THEN [cstop EXCEPT ![t] = 0]
                           ELSE cstop
          ELSE /\ pc' = [pc EXCEPT ![t] = "stop_rec_mark"]
               /\ UNCHANGED <<state, cstop>>
     ELSE /\ pc' = [pc EXCEPT ![t] = "stop_join"]
          /\ UNCHANGED <<state, cstop>>
  /\ UNCHANGED xvars
  /\ UNCHANGED <<stop_event, audio_buffer, threads, callback,
                 message_deduplication, translator, has_is_running, now, held,
                 pending, accepted, send_log, warning_calls, error_calls,
                 close_calls, nframes, nstarts, nstops, nneterrs>>

\* translator_manager.py:241
stop_rec_mark(t) ==
  /\ pc[t] = "stop_rec_mark"
  /\ state' = [state EXCEPT !.translator_status = "stopping"]
  /\ pc' = [pc EXCEPT ![t] = "stop_rec_call"]
  /\ UNCHANGED xvars
  /\ UNCHANGED <<stop_event, audio_buffer, threads, callback,
                 message_deduplication, translator, has_is_running, now, held,
                 cstop, pending, accepted, send_log, warning_calls,
                 error_calls, close_calls, nframes, nstarts, nstops, nneterrs>>

\* what translator.stop() of the recognizer can do: return, raise
\* InvalidParameter (it is not running), or raise RuntimeError/IOError
\* (the connection is broken)
RecognizerStopOutcomes(tr) ==
  IF ~tr.started THEN {"InvalidParameter"}
  ELSE IF tr.conn_ok THEN {"ok"} ELSE {"ok", "RuntimeError"}

RecognizerStopped(tr) ==
  [tr EXCEPT !.started = FALSE, !.stop_calls = tr.stop_calls + 1]

\* translator_manager.py:242, 245, 251: translator.stop() returns or raises;
\* the thread is then before the status write of the branch it took
stop_rec_call(t) ==
  /\ pc[t] = "stop_rec_call"
  /\ \E outcome \in RecognizerStopOutcomes(translator) :
       pc' = [pc EXCEPT ![t] = IF outcome = "RuntimeError"
                                THEN "stop_rec_error" ELSE "stop_rec_stopped"]
  /\ translator' = RecognizerStopped(translator)
  /\ UNCHANGED xvars
  /\ UNCHANGED <<state, stop_event, audio_buffer, threads, callback,
                 message_deduplication, has_is_running, now, held, cstop,
                 pending, accepted, send_log, warning_calls, error_calls,
                 close_calls, nframes, nstarts, nstops, nneterrs>>

\* translator_manager.py:244, 250, 255: the status write after
\* translator.stop(): "stopped" after a return or InvalidParameter, "error"
\* after RuntimeError/IOError
stop_rec_status(t) ==
  /\ pc[t] \in {"stop_rec_stopped", "stop_rec_error"}
  /\ state' = [state EXCEPT !.translator_status =
                 IF pc[t] = "stop_rec_error" THEN "error" ELSE "stopped"]
  /\ pc' = [pc EXCEPT ![t] = "stop_join"]
  /\ UNCHANGED xvars
  /\ UNCHANGED <<stop_event, audio_buffer, threads, callback,
                 message_deduplication, translator, has_is_running, now, held,
                 cstop, pending, accepted, send_log, warning_calls,
                 error_calls, close_calls, nframes, nstarts, nstops, nneterrs>>

Alive(th) == th # NoThread /\ pc[th] \notin {"unborn", "dead"}

\* translator_manager.py:258-261 and 443-456 (_stop_thread). Thread.join on
\* the calling thread itself raises RuntimeError; on another thread it
\* returns when that thread has ended or after the 2 s timeout.
stop_join(t) ==
  /\ pc[t] = "stop_join"
  /\ IF Alive(threads.processing) /\ threads.processing = t
     THEN \* RuntimeError leaves stop(): the consumer's outer handler
          \* (translator_manager.py:360-364) calls stop() once more
          IF cstop[t] = 1
          THEN /\ cstop' = [cstop EXCEPT ![t] = 2]
               /\ pc' = [pc EXCEPT ![t] = "stop_guard"]
          ELSE /\ cstop' = [cstop EXCEPT ![t] = 0]
               /\ pc' = [pc EXCEPT ![t] = "dead"]
     ELSE /\ pc' = [pc EXCEPT ![t] = "stop_close"]
          /\ UNCHANGED cstop
  /\ UNCHANGED xvars
  /\ UNCHANGED <<state, stop_event, audio_buffer, threads, callback,
                 message_deduplication, translator, has_is_running, now, held,
                 pending, accepted, send_log, warning_calls, error_calls,
                 close_calls, nframes, nstarts, nstops, nneterrs>>

\* translator_manager.py:264: if self.callback; without a bridge stop() goes
\* on to _clear_audio_buffer (269)
stop_close(t) ==
  /\ pc[t] = "stop_close"
  /\ pc' = [pc EXCEPT ![t] = IF callback # "None" THEN "stop_close_call"
                              ELSE "stop_buffer"]
  /\ UNCHANGED xvars
  /\ UNCHANGED <<state, stop_event, audio_buffer, threads, callback,
                 message_deduplication, translator, has_is_running, now, held,
                 cstop, pending, accepted, send_log, warning_calls,
                 error_calls, close_calls, nframes, nstarts, nstops, nneterrs>>

\* where a thread continues when AttributeError leaves its stop(): the
\* consumer loop (355-364) has no handler for it and the thread ends; the
\* owner gets the exception; on the callback thread it passes
\* _on_network_error (96-100) and is caught by the bridge's on_error
StopRaised(t) ==
  IF t \in Consumers THEN "dead" ELSE "idle"

\* translation_callback.py:75-88: on_error's handler for an exception of a
\* callback logs it and invokes the error callback when one is set
CallbackRaised(calls) ==
  IF bridge_callbacks.error THEN calls + 1 ELSE calls

\* translator_unit.py:634-642: the unit's stop() catches IOError,
\* RuntimeError and OSError of translator.stop(); any other exception leaves
\* the unit's stop() before _save_all_results and logger.close()
UnitStopRaised(positions) ==
  IF positions["main"] = "u_translator_stop"
  THEN [positions EXCEPT !["main"] = "idle"] ELSE positions

\* translator_manager.py:265: self.callback.close(); the attribute is read
\* again, and it is None when another thread's stop() has passed line 266
stop_close_call(t) ==
  /\ pc[t] = "stop_close_call"
  /\ IF callback # "None"
     THEN /\ close_calls' = close_calls + 1
          /\ pc' = [pc EXCEPT ![t] = "stop_clear"]
          /\ UNCHANGED <<cstop, bridge_error_calls, upc>>
     ELSE /\ pc' = [pc EXCEPT ![t] = StopRaised(t)]
          /\ cstop' = IF t \in Consumers THEN [cstop EXCEPT ![t] = 0]
                      ELSE cstop
          /\ bridge_error_calls' = IF t = "cb"
                                   THEN CallbackRaised(bridge_error_calls)
                                   ELSE bridge_error_calls
          /\ upc' = IF t = "ui" THEN UnitStopRaised(upc) ELSE upc
          /\ UNCHANGED close_calls
  /\ UNCHANGED <<hvars, gvars, svars, pvars, kvars, dvars, avars>>
  /\ UNCHANGED <<result_queue, sentence_config, last_event_time,
                 realtime_calls, nevents, arrived, handed, is_running,
                 unit_stop_event, sentence_cache, current_sentence_id,
                 has_result, records, processed>>
  /\ UNCHANGED <<bridge_callbacks, error_msg, network_error_calls,
                 bridge_error_logs, nerrors>>
  /\ UNCHANGED <<state, stop_event, audio_buffer, threads, callback,
                 message_deduplication, translator, has_is_running, now, held,
                 pending, accepted, send_log, warning_calls, error_calls,
                 nframes, nstarts, nstops, nneterrs>>

\* translator_manager.py:266 after the close(): self.callback = None
stop_clear(t) ==
  /\ pc[t] = "stop_clear"
  /\ callback' = "None"
  /\ pc' = [pc EXCEPT ![t] = "stop_buffer"]
  /\ UNCHANGED xvars
  /\ UNCHANGED <<state, stop_event, audio_buffer, threads, cstop,
                 message_deduplication, translator, has_is_running, now, held,
                 pending, accepted, send_log, warning_calls, error_calls,
                 close_calls, nframes, nstarts, nstops, nneterrs>>

\* translator_manager.py:269, 464-470: one turn of _clear_audio_buffer:
\* empty() ends the loop and stop() returns, otherwise get_nowait() takes
\* one frame off the buffer
stop_buffer(t) ==
  /\ pc[t] = "stop_buffer"
  /\ IF audio_buffer = <<>>
     THEN /\ pc' = [pc EXCEPT ![t] = StopReturn(t)]
          /\ cstop' = IF t \in Consumers THEN [cstop EXCEPT ![t] = 0]
                      ELSE cstop
          /\ UNCHANGED audio_buffer
     ELSE /\ audio_buffer' = Tail(audio_buffer)
          /\ UNCHANGED <<pc, cstop>>
  /\ UNCHANGED xvars
  /\ UNCHANGED <<state, stop_event, threads, callback,
                 message_deduplication, translator, has_is_running, now, held,
                 pending, accepted, send_log, warning_calls, error_calls,
                 close_calls, nframes, nstarts, nstops, nneterrs>>

(* --------------------------- process_audio ---------------------------- *)
\* a gate that does not look at the network status
ProcessAudioIgnores_NoNetworkTest(frame) ==
  \/ ~state.running
  \/ frame = NoFrame
  \/ stop_event

\* translator_manager.py:278-280: the calls that return at once
ProcessAudioIgnores(frame) ==
  \/ ~state.running
  \/ frame = NoFrame
  \/ stop_event
  \/ ~state.network_status

\* translator_manager.py:278-285: process_audio is called with one of
\* frames
process_audio_call(frames) ==
  /\ pc["prod"] = "idle"
  /\ nframes < MaxFrames
  /\ nframes' = nframes + 1
  /\ \E frame \in frames :
       IF ProcessAudioIgnores(frame)
       THEN UNCHANGED <<pc, pending>>
       ELSE /\ pending' = ToMono(frame)
            /\ pc' = [pc EXCEPT !["prod"] = "put"]
  /\ UNCHANGED <<state, stop_event, audio_buffer, threads, callback,
                 message_deduplication, translator, has_is_running, now, held,
                 cstop, accepted, send_log, warning_calls, error_calls,
                 close_calls, nstarts, nstops, nneterrs>>

\* translator_manager.py:278-285: the producer hands in the next frame, or None
process_audio ==
  /\ process_audio_call(InputFrames(nframes + 1) \cup {NoFrame})
  /\ UNCHANGED xvars

\* translator_manager.py:289-294: queue.Full after the 0.5 s wait: the warning
\* goes to callbacks['warning'] directly, past the dedup record
BufferFullNotify_Dedup(md, n) ==
  [record |-> WarningRecordAfter(md, "audio_buffer_full"),
   calls |-> WarningCallsAfter(n, "audio_buffer_full")]

BufferFullNotify(md, n) == [record |-> md, calls |-> n + 1]

\* translator_manager.py:288-294: put(block=True, timeout=0.5)
process_audio_put ==
  /\ pc["prod"] = "put"
  /\ IF Len(audio_buffer) < AudioBufferMaxsize
     THEN /\ audio_buffer' = Append(audio_buffer, pending)
          /\ accepted' = Append(accepted, pending)
          /\ UNCHANGED <<warning_calls, message_deduplication, gvars>>
     ELSE /\ warning_calls' =
               BufferFullNotify(message_deduplication, warning_calls).calls
          /\ message_deduplication' =
               BufferFullNotify(message_deduplication, warning_calls).record
          /\ overflows' = overflows + 1
          /\ overflow_in_cooldown' =
               (overflow_in_cooldown \/ WarningSuppressed("audio_buffer_full"))
          /\ UNCHANGED <<audio_buffer, accepted, notify_log>>
  /\ pending' = NoFrame
  /\ pc' = [pc EXCEPT !["prod"] = "idle"]
  /\ UNCHANGED <<hvars, rvars, yvars>>
  /\ UNCHANGED <<state, stop_event, threads, callback, translator,
                 has_is_running, now, held, cstop, send_log, error_calls,
                 close_calls, nframes, nstarts, nstops, nneterrs>>

(* ----------------------- _consume_audio_buffer ------------------------ *)
\* translator_manager.py:305: the loop condition
consume_loop(c) ==
  /\ pc[c] = "c_loop"
  /\ pc' = [pc EXCEPT ![c] = IF state.running /\ ~stop_event
                              THEN "c_paused" ELSE "dead"]
  /\ UNCHANGED xvars
  /\ UNCHANGED <<state, stop_event, audio_buffer, threads, callback,
                 message_deduplication, translator, has_is_running, now, held,
                 cstop, pending, accepted, send_log, warning_calls,
                 error_calls, close_calls, nframes, nstarts, nstops, nneterrs>>

\* translator_manager.py:317-325 and 331-339: the deferred start of a
\* recognizer that is still "initialized"
DeferredStart(ok) ==
  IF ok
  THEN /\ translator' = RecognizerStarted(translator)
       /\ state' = [state EXCEPT !.translator_status = "running"]
  ELSE /\ translator' = RecognizerStartFailed(translator)
       /\ state' = handle_translator_start_error(state)

\* a consumer that takes the newest frame
NextFrame_Newest(buf) == buf[Len(buf)]

\* translator_manager.py:314: queue.Queue.get hands out the oldest frame
NextFrame(buf) == Head(buf)

\* translator_manager.py:307-310: the pause test; a paused consumer sleeps
\* 0.1 s and goes back to the loop condition
consume_paused(c) ==
  /\ pc[c] = "c_paused"
  /\ pc' = [pc EXCEPT ![c] = IF state.audio_processing_paused
                                 \/ ~state.network_status
                              THEN "c_loop" ELSE "c_get"]
  /\ UNCHANGED xvars
  /\ UNCHANGED <<state, stop_event, audio_buffer, threads, callback,
                 message_deduplication, translator, has_is_running, now, held,
                 cstop, pending, accepted, send_log, warning_calls,
                 error_calls, close_calls, nframes, nstarts, nstops, nneterrs>>

\* translator_manager.py:314-326: get(timeout=0.5) returns the oldest frame
\* as soon as the buffer holds one; on a buffer that stays empty it raises
\* queue.Empty after the 0.5 s, during which the other threads run
consume_get(c) ==
  /\ pc[c] = "c_get"
  /\ IF audio_buffer # <<>>
     THEN /\ held' = [held EXCEPT ![c] = NextFrame(audio_buffer)]
          /\ audio_buffer' = Tail(audio_buffer)
          /\ pc' = [pc EXCEPT ![c] = "c_status"]
          /\ UNCHANGED <<translator, state>>
     ELSE \* queue.Empty
          /\ IF state.translator_status = "initialized"
             THEN \E ok \in BOOLEAN : DeferredStart(ok)
             ELSE UNCHANGED <<translator, state>>
          /\ pc' = [pc EXCEPT ![c] = "c_loop"]
          /\ UNCHANGED <<audio_buffer, held>>
  /\ UNCHANGED xvars
  /\ UNCHANGED <<stop_event, threads, callback, message_deduplication,
                 has_is_running, now, cstop, pending, accepted, send_log,
                 warning_calls, error_calls, close_calls, nframes, nstarts,
                 nstops, nneterrs>>

\* translator_manager.py:329-341: the status test before a send
consume_status(c) ==
  /\ pc[c] = "c_status"
  /\ IF state.translator_status # "running"
     THEN IF state.translator_status = "initialized"
          THEN /\ \E ok \in BOOLEAN : DeferredStart(ok)
               /\ pc' = [pc EXCEPT ![c] = "c_send"]
               /\ UNCHANGED held
          ELSE \* continue: the frame is dropped
               /\ held' = [held EXCEPT ![c] = NoFrame]
               /\ pc' = [pc EXCEPT ![c] = "c_loop"]
               /\ UNCHANGED <<translator, state>>
     ELSE /\ pc' = [pc EXCEPT ![c] = "c_send"]
          /\ UNCHANGED <<held, translator, state>>
  /\ UNCHANGED xvars
  /\ UNCHANGED <<stop_event, audio_buffer, threads, callback,
                 message_deduplication, has_is_running, now, cstop, pending,
                 accepted, send_log, warning_calls, error_calls, close_calls,
                 nframes, nstarts, nstops, nneterrs>>

\* send_audio_frame of the recognizer: it delivers the frame, raises a
\* transport error (ConnectionError/IOError/RuntimeError) on a broken
\* connection, or raises InvalidParameter when the recognizer is not running
SendOutcome(tr) ==
  IF ~tr.started THEN "InvalidParameter"
  ELSE IF tr.conn_ok THEN "ok" ELSE "transport_error"

\* translator_manager.py:346-353: what the consumer does after a transport
\* error: notify, then stop()
AfterSendFailure(c) ==
  /\ message_deduplication' =
       ErrorRecordAfter(message_deduplication, "audio_transmission_error")
  /\ error_calls' = ErrorCallsAfter(error_calls, "audio_transmission_error")
  /\ cstop' = [cstop EXCEPT ![c] = 1]
  /\ pc' = [pc EXCEPT ![c] = "stop_guard"]

\* translator_manager.py:343-364
consume_send(c) ==
  /\ pc[c] = "c_send"
  /\ LET outcome == SendOutcome(translator) IN
       /\ send_log' = Append(send_log, [frame |-> held[c], by |-> c,
                                        outcome |-> outcome])
       /\ IF outcome = "ok"
          THEN /\ pc' = [pc EXCEPT ![c] = "c_loop"]
               /\ UNCHANGED <<message_deduplication, error_calls, cstop>>
          ELSE IF outcome = "transport_error"
          THEN AfterSendFailure(c)
          ELSE \* InvalidParameter is caught by no handler: the thread ends
               /\ pc' = [pc EXCEPT ![c] = "dead"]
               /\ UNCHANGED <<message_deduplication, error_calls, cstop>>
  /\ held' = [held EXCEPT ![c] = NoFrame]
  /\ UNCHANGED xvars
  /\ UNCHANGED <<state, stop_event, audio_buffer, threads, callback,
                 translator, has_is_running, now, pending, accepted,
                 warning_calls, close_calls, nframes, nstarts, nstops,
                 nneterrs>>

(* -------------------- bridge: network error callback ------------------ *)
\* translation_callback.py:51-62 and translator_manager.py:87-98: the
\* recognizer reports a network error on its callback thread. On a manager
\* that is not running or has its stop signal set the handler returns at once
\* and nothing changes; nneterrs counts the reports that go on to stop().
on_network_error ==
  /\ pc["cb"] = "idle"
  /\ translator.started
  /\ nneterrs < MaxNetErrors
  /\ IF ~state.running \/ stop_event
     THEN UNCHANGED <<pc, nneterrs>>
     ELSE /\ nneterrs' = nneterrs + 1
          /\ pc' = [pc EXCEPT !["cb"] = "stop_guard"]
  /\ UNCHANGED xvars
  /\ UNCHANGED <<state, stop_event, audio_buffer, threads, callback,
                 message_deduplication, translator, has_is_running, now, held,
                 cstop, pending, accepted, send_log, warning_calls,
                 error_calls, close_calls, nframes, nstarts, nstops>>

\* translator_manager.py:104-107
on_network_error_notify ==
  /\ pc["cb"] = "cb_notify"
  /\ error_calls' = error_calls + 1
  /\ pc' = [pc EXCEPT !["cb"] = "idle"]
  /\ UNCHANGED xvars
  /\ UNCHANGED <<state, stop_event, audio_buffer, threads, callback,
                 message_deduplication, translator, has_is_running, now, held,
                 cstop, pending, accepted, send_log, warning_calls,
                 close_calls, nframes, nstarts, nstops, nneterrs>>

(* ----------------------------- environment ---------------------------- *)
\* the connection of a started recognizer breaks
connection_lost ==
  /\ translator.started
  /\ translator.conn_ok
  /\ translator' = [translator EXCEPT !.conn_ok = FALSE]
  /\ UNCHANGED xvars
  /\ UNCHANGED <<state, stop_event, audio_buffer, threads, callback,
                 message_deduplication, has_is_running, now, pc, held, cstop,
                 pending, accepted, send_log, warning_calls, error_calls,
                 close_calls, nframes, nstarts, nstops, nneterrs>>

\* a second passes
tick ==
  /\ now < InitialTime + MaxTime
  /\ now' = now + 1
  /\ UNCHANGED xvars
  /\ UNCHANGED <<state, stop_event, audio_buffer, threads, callback,
                 message_deduplication, translator, has_is_running, pc, held,
                 cstop, pending, accepted, send_log, warning_calls,
                 error_calls, close_calls, nframes, nstarts, nstops, nneterrs>>

(* ------------------ send_*_notification, called directly -------------- *)
WarningMessages == {"audio_buffer_full", "recognizer_warning"}
ErrorMessages == {"audio_transmission_error", "recognizer_error"}

\* what a direct call leaves in notify_log: the method, its argument, the
\* clock it read and whether the callback was invoked
Notified(tier, m, delivered) ==
  Append(notify_log, [tier |-> tier, message |-> m, at |-> now,
                      delivered |-> delivered])

\* translator_manager.py:141-167: a call with one of messages; limit bounds
\* the direct calls of a run
warning_notification(limit, messages) ==
  /\ nnotify < limit
  /\ nnotify' = nnotify + 1
  /\ \E m \in messages :
       /\ message_deduplication' = WarningRecordAfter(message_deduplication, m)
       /\ warning_calls' = WarningCallsAfter(warning_calls, m)
       /\ notify_log' =
            Notified("warning", m,
                     WarningCallsAfter(warning_calls, m) # warning_calls)
  /\ UNCHANGED <<state, stop_event, audio_buffer, threads, callback,
                 translator, has_is_running, now, pc, held, cstop, pending,
                 accepted, send_log, error_calls, close_calls, nframes,
                 nstarts, nstops, nneterrs, current_status>>
  /\ UNCHANGED <<overflows, overflow_in_cooldown, rvars, yvars>>

\* translator_manager.py:141-167
send_warning_notification == warning_notification(MaxNotify, WarningMessages)

\* translator_manager.py:113-139: a call with one of messages
error_notification(limit, messages) ==
  /\ nnotify < limit
  /\ nnotify' = nnotify + 1
  /\ \E m \in messages :
       /\ message_deduplication' = ErrorRecordAfter(message_deduplication, m)
       /\ error_calls' = ErrorCallsAfter(error_calls, m)
       /\ notify_log' =
            Notified("error", m, ErrorCallsAfter(error_calls, m) # error_calls)
  /\ UNCHANGED <<state, stop_event, audio_buffer, threads, callback,
                 translator, has_is_running, now, pc, held, cstop, pending,
                 accepted, send_log, warning_calls, close_calls, nframes,
                 nstarts, nstops, nneterrs, current_status>>
  /\ UNCHANGED <<overflows, overflow_in_cooldown, rvars, yvars>>

\* translator_manager.py:113-139
send_error_notification == error_notification(MaxNotify, ErrorMessages)

(* -------------------------- _check_connection ------------------------- *)
\* _check_connection is started by no code of the repository (start() never
\* fills threads['heartbeat']); here it is called directly, on a thread of
\* its own, as module/test/test_translator_manager.py:545-552 does.
check_connection ==
  /\ pc["hb"] = "idle"
  /\ state.running
  /\ pc' = [pc EXCEPT !["hb"] = "hb_loop"]
  /\ UNCHANGED <<state, stop_event, audio_buffer, threads, callback,
                 message_deduplication, translator, has_is_running, now, held,
                 cstop, pending, accepted, send_log, warning_calls,
                 error_calls, close_calls, nframes, nstarts, nstops, nneterrs,
                 current_status, nnotify>>
  /\ UNCHANGED <<gvars, rvars, yvars>>

\* translator_manager.py:390-399: loop condition and the sliced sleep
check_connection_loop ==
  /\ pc["hb"] = "hb_loop"
  /\ pc' = [pc EXCEPT !["hb"] = IF state.running /\ ~stop_event
                                 THEN "hb_probe" ELSE "idle"]
  /\ UNCHANGED <<state, stop_event, audio_buffer, threads, callback,
                 message_deduplication, translator, has_is_running, now, held,
                 cstop, pending, accepted, send_log, warning_calls,
                 error_calls, close_calls, nframes, nstarts, nstops, nneterrs,
                 current_status, nnotify>>
  /\ UNCHANGED <<gvars, rvars, yvars>>

\* translator_manager.py:413-415
ConnectionLostState(st) ==
  [st EXCEPT !.translator_status = "disconnected", !.running = FALSE,
             !.network_status = FALSE]

\* translator_manager.py:398-403: the stop signal and the status are read;
\* a manager that is "running" is probed next
check_connection_probe ==
  /\ pc["hb"] = "hb_probe"
  /\ pc' = [pc EXCEPT !["hb"] =
              IF stop_event THEN "idle"
              ELSE IF state.translator_status = "running" THEN "hb_send"
              ELSE "hb_loop"]
  /\ UNCHANGED <<state, stop_event, audio_buffer, threads, callback,
                 message_deduplication, translator, has_is_running, now, held,
                 cstop, pending, accepted, send_log, warning_calls,
                 error_calls, close_calls, nframes, nstarts, nstops, nneterrs,
                 current_status, nnotify>>
  /\ UNCHANGED <<gvars, rvars, yvars>>

\* translator_manager.py:405-410: the probe with an empty frame, made with
\* the status read before. It returns, or raises a transport error, which
\* the handler at 406 takes, or InvalidParameter, which nothing catches
check_connection_send ==
  /\ pc["hb"] = "hb_send"
  /\ pc' = [pc EXCEPT !["hb"] =
              IF SendOutcome(translator) = "ok" THEN "hb_loop"
              ELSE IF SendOutcome(translator) = "transport_error"
              THEN "hb_lost"
              ELSE "idle"]
  /\ UNCHANGED <<state, stop_event, audio_buffer, threads, callback,
                 message_deduplication, translator, has_is_running, now, held,
                 cstop, pending, accepted, send_log, warning_calls,
                 error_calls, close_calls, nframes, nstarts, nstops, nneterrs,
                 current_status, nnotify>>
  /\ UNCHANGED <<gvars, rvars, yvars>>

\* translator_manager.py:413-420: the handler of the failed probe writes the
\* three fields, whatever they have become since the send, and sends the
\* notification
check_connection_lost ==
  /\ pc["hb"] = "hb_lost"
  /\ state' = ConnectionLostState(state)
  /\ message_deduplication' =
       ErrorRecordAfter(message_deduplication, "translation_connection_lost")
  /\ error_calls' =
       ErrorCallsAfter(error_calls, "translation_connection_lost")
  /\ pc' = [pc EXCEPT !["hb"] = "hb_stop_translator"]
  /\ UNCHANGED <<stop_event, audio_buffer, threads, callback, translator,
                 has_is_running, now, held, cstop, pending, accepted,
                 send_log, warning_calls, close_calls, nframes, nstarts,
                 nstops, nneterrs, current_status, nnotify>>
  /\ UNCHANGED <<gvars, rvars, yvars>>

\* translator_manager.py:475-485: _stop_translator saves the status, tests it
stop_translator ==
  /\ pc["hb"] = "hb_stop_translator"
  /\ current_status' = state.translator_status
  /\ pc' = [pc EXCEPT !["hb"] =
              IF state.translator_status \notin {"stopped", "stopping"}
              THEN IF has_is_running /\ ~translator.started
                   THEN "idle"   \* return: nothing is cleared or restored
                   ELSE "hb_stop_call"
              ELSE "hb_stop_restore"]
  /\ UNCHANGED <<state, stop_event, audio_buffer, threads, callback,
                 message_deduplication, translator, has_is_running, now, held,
                 cstop, pending, accepted, send_log, warning_calls,
                 error_calls, close_calls, nframes, nstarts, nstops, nneterrs,
                 nnotify>>
  /\ UNCHANGED <<gvars, rvars, yvars>>

\* translator_manager.py:487-497: translator.stop() returns or raises; only
\* RuntimeError/IOError writes the status
stop_translator_call ==
  /\ pc["hb"] = "hb_stop_call"
  /\ \E outcome \in RecognizerStopOutcomes(translator) :
       state' = IF outcome = "RuntimeError"
                THEN [state EXCEPT !.translator_status = "error"]
                ELSE state
  /\ translator' = RecognizerStopped(translator)
  /\ pc' = [pc EXCEPT !["hb"] = "hb_stop_restore"]
  /\ UNCHANGED <<stop_event, audio_buffer, threads, callback,
                 message_deduplication, has_is_running, now, held, cstop,
                 pending, accepted, send_log, warning_calls, error_calls,
                 close_calls, nframes, nstarts, nstops, nneterrs,
                 current_status, nnotify>>
  /\ UNCHANGED <<gvars, rvars, yvars>>

\* translator_manager.py:503-504: the status _stop_translator leaves
RestoredStatus(saved, status) ==
  IF saved = "disconnected" THEN "disconnected" ELSE status

\* translator_manager.py:499-504, 464-470: one turn of _clear_audio_buffer;
\* when empty() ends the loop the saved status is restored and
\* _stop_translator returns
stop_translator_restore ==
  /\ pc["hb"] = "hb_stop_restore"
  /\ IF audio_buffer = <<>>
     THEN /\ state' = [state EXCEPT !.translator_status =
                         RestoredStatus(current_status,
                                        state.translator_status)]
          /\ pc' = [pc EXCEPT !["hb"] = "idle"]
          /\ UNCHANGED audio_buffer
     ELSE /\ audio_buffer' = Tail(audio_buffer)
          /\ UNCHANGED <<state, pc>>
  /\ UNCHANGED <<stop_event, threads, callback, message_deduplication,
                 translator, has_is_running, now, held, cstop, pending,
                 accepted, send_log, warning_calls, error_calls, close_calls,
                 nframes, nstarts, nstops, nneterrs, current_status, nnotify>>
  /\ UNCHANGED <<gvars, rvars, yvars>>

HeartbeatStep ==
  \/ check_connection
  \/ check_connection_loop
  \/ check_connection_probe
  \/ check_connection_send
  \/ check_connection_lost
  \/ stop_translator
  \/ stop_translator_call
  \/ stop_translator_restore

(* ------------------------- steps of a thread -------------------------- *)
StopStep(t) ==
  \/ stop_guard(t)
  \/ stop_set(t)
  \/ stop_recorder(t)
  \/ stop_rec_check(t)
  \/ stop_rec_mark(t)
  \/ stop_rec_call(t)
  \/ stop_rec_status(t)
  \/ stop_join(t)
  \/ stop_close(t)
  \/ stop_close_call(t)
  \/ stop_clear(t)
  \/ stop_buffer(t)

ConsumerStep(c) ==
  \/ consume_loop(c)
  \/ consume_paused(c)
  \/ consume_get(c)
  \/ consume_status(c)
  \/ consume_send(c)

(* ------------------------- the result queue --------------------------- *)
\* translator_manager.py:40: result_queue is a queue.PriorityQueue of
\* (sentence_id, original, translated) tuples; tuples compare field by field
EventLess(a, b) ==
  \/ a.sid < b.sid
  \/ a.sid = b.sid /\ a.original < b.original
  \/ a.sid = b.sid /\ a.original = b.original /\ a.translated < b.translated

\* translation_callback.py:136: PriorityQueue.put keeps the smallest tuple
\* at the front
QueuePut(q, e) ==
  LET k == Cardinality({i \in DOMAIN q : ~EventLess(e, q[i])})
  IN  SubSeq(q, 1, k) \o <<e>> \o SubSeq(q, k + 1, Len(q))

NoResult == [sid |-> NoSentence, original |-> NoText, translated |-> NoText]

\* translator_manager.py:514-525: get_result returns the smallest queued
\* tuple, or (None, None, None) when the queue stays empty for the timeout
GetResult(q) == IF q = <<>> THEN NoResult ELSE Head(q)

AfterGetResult(q) == IF q = <<>> THEN q ELSE Tail(q)

HandedAfter(h, result) == IF result = NoResult THEN h ELSE Append(h, result)

(* ----------------------- bridge: on_event ----------------------------- *)
\* the transcription payloads: without text, or a text that comes under a
\* sentence id or with sentence_id None
\* (module/test/test_translation_callback.py:129-135)
Transcriptions ==
  {[text |-> NoText, sentence_id |-> NoSentence]}
  \cup {[text |-> t, sentence_id |-> s] :
          t \in 1..MaxText, s \in SentenceIds \cup {NoSentence}}

\* the translated text that can come with a transcription: none, or the
\* translation of the transcribed text, which has the rank of that text;
\* none or a text when nothing was transcribed (such a result is never
\* recorded, whatever its text)
Translations(transcription) ==
  IF transcription.text = NoText THEN {NoText, 1}
  ELSE {NoText, transcription.text}

\* translation_callback.py:107-111: the sentence id is read only from a
\* transcription that has text
EventSentenceId(transcription) ==
  IF transcription.text # NoText THEN transcription.sentence_id ELSE NoSentence

\* translation_callback.py:119
HasText(original, translated) == original # NoText \/ translated # NoText

\* translation_callback.py:121-123: the per-sentence counter after the event
CounterAfter(cfg, sid, original, translated) ==
  IF HasText(original, translated) /\ sid # NoSentence
  THEN [cfg EXCEPT !.counter[sid] = @ + 1]
  ELSE cfg

\* a threshold test that lets the N-th event through
RealtimeShown_FromThreshold(cfg, sid, original, translated) ==
  /\ HasText(original, translated)
  /\ \/ sid = NoSentence
     \/ CounterAfter(cfg, sid, original, translated).counter[sid] >= cfg.attack

\* translation_callback.py:120-130: whether realtime_callback is invoked
RealtimeShown(cfg, sid, original, translated) ==
  /\ HasText(original, translated)
  /\ \/ sid = NoSentence
     \/ CounterAfter(cfg, sid, original, translated).counter[sid] > cfg.attack

\* translation_callback.py:134-136: an event without a sentence id is queued
\* under the clock value
QueuedEvent(sid, original, translated) ==
  [sid |-> IF sid = NoSentence THEN now ELSE sid,
   original |-> original, translated |-> translated]

\* translation_callback.py:94-144, on the recognizer's callback thread
on_event ==
  /\ pc["cb"] = "idle"
  /\ translator.started
  /\ nevents < MaxEvents
  /\ nevents' = nevents + 1
  /\ last_event_time' = now
  /\ \E transcription \in Transcriptions :
     \E translated \in Translations(transcription) :
       LET original == transcription.text
           sid == EventSentenceId(transcription)
       IN  /\ sentence_config' =
                CounterAfter(sentence_config, sid, original, translated)
           /\ realtime_calls' =
                IF RealtimeShown(sentence_config, sid, original, translated)
                THEN Append(realtime_calls, <<original, translated>>)
                ELSE realtime_calls
           /\ IF HasText(original, translated)
              THEN /\ result_queue' =
                        QueuePut(result_queue,
                                 QueuedEvent(sid, original, translated))
                   /\ arrived' =
                        Append(arrived, QueuedEvent(sid, original, translated))
              ELSE UNCHANGED <<result_queue, arrived>>
  /\ UNCHANGED <<handed, is_running, unit_stop_event, upc, sentence_cache,
                 current_sentence_id, has_result, records, processed>>
  /\ UNCHANGED <<mvars, hvars, gvars, yvars>>

\* payloads that are not what on_event expects: a transcription without a
\* text attribute (107), one whose attribute access raises ValueError
\* (module/test/test_translation_callback.py:160-183), one whose text is not
\* a string (119), and one with text whose sentence_id is a list (122)
MalformedPayloads ==
  {"no_text_attribute", "value_error", "text_not_str",
   "unhashable_sentence_id"}

\* the exception the payload makes on_event run into
RaisedBy(payload) ==
  CASE payload = "no_text_attribute" -> "AttributeError"
    [] payload = "text_not_str" -> "AttributeError"
    [] payload = "value_error" -> "ValueError"
    [] payload = "unhashable_sentence_id" -> "TypeError"

\* translation_callback.py:138: except (AttributeError, ValueError)
Caught(exception) == exception \in {"AttributeError", "ValueError"}

\* translation_callback.py:102-144 on a malformed payload: last_event_time is
\* set first; the exception comes before the counter, the realtime callback
\* and the queue are touched
on_event_malformed ==
  /\ pc["cb"] = "idle"
  /\ translator.started
  /\ event_error_logs + event_raised < MaxMalformed
  /\ last_event_time' = now
  /\ \E payload \in MalformedPayloads :
       IF Caught(RaisedBy(payload))
       THEN /\ event_error_logs' = event_error_logs + 1
            /\ UNCHANGED event_raised
       ELSE /\ event_raised' = event_raised + 1
            /\ UNCHANGED event_error_logs
  /\ UNCHANGED gpc
  /\ UNCHANGED <<result_queue, sentence_config, realtime_calls, nevents,
                 arrived, handed, is_running, unit_stop_event, upc,
                 sentence_cache, current_sentence_id, has_result, records,
                 processed>>
  /\ UNCHANGED <<mvars, hvars, gvars, svars, evars, kvars, avars, dvars>>

\* translation_callback.py:150-154: a caller enters get_all_texts with two
\* empty lists
get_all_texts ==
  /\ gpc = "idle"
  /\ gpc' = "g_empty"
  /\ UNCHANGED <<event_error_logs, event_raised>>
  /\ UNCHANGED <<mvars, hvars, gvars, rvars, svars, evars, kvars, avars, dvars>>

\* translation_callback.py:156 and 165: the loop test; on an empty queue the
\* lists are returned
get_all_texts_empty ==
  /\ gpc = "g_empty"
  /\ gpc' = IF result_queue = <<>> THEN "idle" ELSE "g_get"
  /\ UNCHANGED <<event_error_logs, event_raised>>
  /\ UNCHANGED <<mvars, hvars, gvars, rvars, svars, evars, kvars, avars, dvars>>

\* translation_callback.py:157-163: get_nowait takes the smallest tuple and
\* its texts join the lists; on a queue another thread has emptied since
\* the test it raises queue.Empty and the loop is left
get_all_texts_get ==
  /\ gpc = "g_get"
  /\ IF result_queue = <<>>
     THEN /\ gpc' = "idle"
          /\ UNCHANGED <<result_queue, handed>>
     ELSE /\ handed' = Append(handed, Head(result_queue))
          /\ result_queue' = Tail(result_queue)
          /\ gpc' = "g_empty"
  /\ UNCHANGED <<sentence_config, last_event_time, realtime_calls, nevents,
                 arrived, is_running, unit_stop_event, upc, sentence_cache,
                 current_sentence_id, has_result, records, processed>>
  /\ UNCHANGED <<event_error_logs, event_raised>>
  /\ UNCHANGED <<mvars, hvars, gvars, svars, evars, kvars, avars, dvars>>

(* ------------------------ bridge: on_error ---------------------------- *)
\* A text is a sequence of words; of a word the model keeps its letters in
\* lower case and whether it is written with an upper-case letter.
Word(w) == [w |-> w, cap |-> FALSE]

Capital(w) == [w |-> w, cap |-> TRUE]

\* str.lower()
Lower(text) == [i \in DOMAIN text |-> [text[i] EXCEPT !.cap = FALSE]]

\* keyword in text
Contains(keyword, text) ==
  \E i \in 1..(Len(text) - Len(keyword) + 1) :
    SubSeq(text, i, i + Len(keyword) - 1) = keyword

\* translation_callback.py:46-49
network_errors ==
  {<<Word("websocket")>>, <<Word("connection")>>, <<Word("network")>>,
   <<Word("timeout")>>,
   <<Capital("client"), Capital("connection"), Capital("reset"),
     Capital("error")>>,
   <<Capital("cannot"), Word("write"), Word("to"), Word("closing"),
     Word("transport")>>}

\* translation_callback.py:51: any(keyword in error_msg.lower() ...)
IsNetworkError(text) ==
  \E keyword \in network_errors : Contains(keyword, Lower(text))

\* the texts the recognizer reports: a few words, or one of the texts the
\* keyword list names
ErrorTexts ==
  LET vocabulary == {Word("connection"), Capital("connection"),
                     Word("timeout"), Capital("timeout"), Word("failed"),
                     Capital("failed")}
  IN  UNION {[1..n -> vocabulary] : n \in 0..MaxWords} \cup network_errors

\* the message is the text itself or a dict that holds it under 'message'
ErrorMessages_Bridge ==
  {[form |-> f, text |-> t] : f \in {"str", "dict"}, t \in ErrorTexts}

\* translation_callback.py:40-43
ErrorText(message) == message.text

BridgeInit ==
  /\ bridge_callbacks = [network_error |-> TRUE, error |-> FALSE]
  /\ error_msg = <<>>
  /\ network_error_calls = 0
  /\ bridge_error_calls = 0
  /\ bridge_error_logs = 0
  /\ nerrors = 0
  /\ event_error_logs = 0
  /\ event_raised = 0
  /\ gpc = "idle"

\* callbacks['error'] = ..., as the owner of a bridge sets it
\* (module/test/test_translation_callback.py:100)
register_error_callback ==
  /\ ~bridge_callbacks.error
  /\ bridge_callbacks' = [bridge_callbacks EXCEPT !.error = TRUE]
  /\ UNCHANGED <<error_msg, network_error_calls, bridge_error_calls,
                 bridge_error_logs, nerrors>>
  /\ UNCHANGED <<mvars, hvars, gvars, rvars, svars, pvars, kvars, avars, dvars>>

\* translation_callback.py:36-75 on the recognizer's callback thread. The
\* network-error callback is _on_network_error (translator_manager.py:87-98),
\* which returns at once on a stopped manager and calls stop() otherwise.
on_error ==
  /\ pc["cb"] = "idle"
  /\ translator.started
  /\ nerrors < MaxErrors
  /\ nerrors' = nerrors + 1
  /\ \E message \in ErrorMessages_Bridge :
       /\ error_msg' = ErrorText(message)
       /\ IF IsNetworkError(ErrorText(message)) /\ bridge_callbacks.network_error
          THEN /\ network_error_calls' = network_error_calls + 1
               /\ pc' = [pc EXCEPT !["cb"] = IF ~state.running \/ stop_event
                                              THEN "idle" ELSE "stop_guard"]
               /\ UNCHANGED <<bridge_error_calls, bridge_error_logs>>
          ELSE /\ IF bridge_callbacks.error
                  THEN /\ bridge_error_calls' = bridge_error_calls + 1
                       /\ UNCHANGED bridge_error_logs
                  ELSE /\ bridge_error_logs' = bridge_error_logs + 1
                       /\ UNCHANGED bridge_error_calls
               /\ UNCHANGED <<pc, network_error_calls>>
  /\ UNCHANGED bridge_callbacks
  /\ UNCHANGED <<state, stop_event, audio_buffer, threads, callback,
                 message_deduplication, translator, has_is_running, now, held,
                 cstop, pending, accepted, send_log, warning_calls,
                 error_calls, close_calls, nframes, nstarts, nstops, nneterrs>>
  /\ UNCHANGED <<hvars, gvars, rvars, svars, pvars, kvars, avars, dvars>>

(* ------------------------- TranslatorUnit ----------------------------- *)
UnitInit ==
  /\ is_running = FALSE
  /\ unit_stop_event = FALSE
  /\ upc = [main |-> "new", process |-> "unborn", result |-> "unborn"]
  /\ sentence_cache = [s \in QueuedIds |-> NoPair]
  /\ current_sentence_id = NoSentence
  /\ has_result = FALSE
  /\ records = <<>>
  /\ processed = <<>>
  /\ unit_stop_calls = 0
  /\ status_reports = 0
  /\ got = [th \in {"result", "main"} |-> NoResult]
  /\ recording = FALSE
  /\ unit_log_closed = FALSE
  /\ join_warnings = {}
  /\ wait = [th \in UnitThreads |-> 0]

\* translator_unit.py:550-553: start() marks the unit running and calls
\* recorder.start_recording(); the sleep of 0.5 s begins
unit_start ==
  /\ upc["main"] = "new"
  /\ is_running' = TRUE
  /\ StartRecording
  /\ upc' = [upc EXCEPT !["main"] = "u_settle"]
  /\ UNCHANGED <<result_queue, sentence_config, last_event_time,
                 realtime_calls, nevents, arrived, handed, unit_stop_event,
                 sentence_cache, current_sentence_id, has_result, records,
                 processed, unit_log_closed, join_warnings, wait>>
  /\ UNCHANGED <<sd, audio_device_id, SAMPLE_RATE, spc, stop_waited>>
  /\ UNCHANGED <<mvars, hvars, gvars, svars, evars, pvars, kvars>>

\* translator_unit.py:556-561: when the sleep is over start() reads
\* recorder.recording: it goes on when the flag is set, and otherwise logs
\* the warning, closes the logger and returns
unit_settle ==
  /\ upc["main"] = "u_settle"
  /\ upc' = [upc EXCEPT !["main"] = IF recording THEN "u_translator_start"
                                    ELSE "idle"]
  /\ unit_log_closed' = (unit_log_closed \/ ~recording)
  /\ UNCHANGED <<result_queue, sentence_config, last_event_time,
                 realtime_calls, nevents, arrived, handed, is_running,
                 unit_stop_event, sentence_cache, current_sentence_id,
                 has_result, records, processed, recording, join_warnings,
                 wait>>
  /\ UNCHANGED <<mvars, hvars, gvars, svars, ovars>>

\* translator_unit.py:564: translator.start()
unit_translator_start ==
  /\ upc["main"] = "u_translator_start"
  /\ start(1)

\* translator_unit.py:566-574: the forwarding thread and the result thread
\* are started when the manager's start() has returned
unit_spawn ==
  /\ upc["main"] = "u_translator_start"
  /\ nstarts = 1
  /\ pc["ui"] = "idle"
  /\ upc' = [upc EXCEPT !["main"] = "idle", !["process"] = "p_loop",
                        !["result"] = "r_loop"]
  /\ UNCHANGED <<result_queue, sentence_config, last_event_time,
                 realtime_calls, nevents, arrived, handed, is_running,
                 unit_stop_event, sentence_cache, current_sentence_id,
                 has_result, records, processed>>
  /\ UNCHANGED <<mvars, hvars, gvars, yvars>>

(* -------------------------- _process_result --------------------------- *)
\* translator_unit.py:312: the loop condition of the result thread
process_result_loop ==
  /\ upc["result"] = "r_loop"
  /\ upc' = [upc EXCEPT !["result"] = IF unit_stop_event THEN "r_flush"
                                      ELSE "r_get"]
  /\ UNCHANGED <<result_queue, sentence_config, last_event_time,
                 realtime_calls, nevents, arrived, handed, is_running,
                 unit_stop_event, sentence_cache, current_sentence_id,
                 has_result, records, processed>>
  /\ UNCHANGED <<mvars, hvars, gvars, yvars>>

\* translator_unit.py:323: the results the thread caches
Complete(result) ==
  /\ result.original # NoText
  /\ result.translated # NoText
  /\ result.sid # NoSentence

\* result_recorder.py:185-232: record_translation keeps a pair unless one of
\* its texts is empty. sid and by tell which sentence and which caller.
RecordTranslation(recs, sid, pair, by) ==
  IF pair.original = NoText \/ pair.translated = NoText THEN recs
  ELSE Append(recs, [sid |-> sid, original |-> pair.original,
                     translated |-> pair.translated, by |-> by])

\* a cache that keeps the first pair of a sentence
CachePut_First(cache, result) ==
  IF cache[result.sid] = NoPair
  THEN [cache EXCEPT ![result.sid] = [original |-> result.original,
                                      translated |-> result.translated]]
  ELSE cache

\* translator_unit.py:325: the cache takes the newest pair of the sentence
CachePut(cache, result) ==
  [cache EXCEPT ![result.sid] = [original |-> result.original,
                                 translated |-> result.translated]]

\* translator_unit.py:328-331: a new sentence id closes the open one
Commits(cache, current, result) ==
  /\ result.sid # current
  /\ current # NoSentence
  /\ cache[current] # NoPair

\* translator_unit.py:313-323: get_result returns; a result that lacks a
\* text or the id ends the turn, any other is kept in the local variable
process_result ==
  /\ upc["result"] = "r_get"
  /\ LET result == GetResult(result_queue) IN
       /\ result_queue' = AfterGetResult(result_queue)
       /\ handed' = HandedAfter(handed, result)
       /\ IF Complete(result)
          THEN /\ got' = [got EXCEPT !["result"] = result]
               /\ upc' = [upc EXCEPT !["result"] = "r_record"]
               /\ UNCHANGED processed
          ELSE /\ processed' = HandedAfter(processed, result)
               /\ upc' = [upc EXCEPT !["result"] = "r_loop"]
               /\ UNCHANGED got
  /\ UNCHANGED <<sentence_config, last_event_time, realtime_calls, nevents,
                 arrived, is_running, unit_stop_event, sentence_cache,
                 current_sentence_id, has_result, records>>
  /\ UNCHANGED <<unit_stop_calls, status_reports>>
  /\ UNCHANGED <<mvars, hvars, gvars, ovars, avars>>

\* translator_unit.py:325-338: the result the thread holds goes into the
\* cache, and the sentence that was open is recorded when the id is new
process_result_record ==
  /\ upc["result"] = "r_record"
  /\ LET result == got["result"] IN
       /\ processed' = HandedAfter(processed, result)
       /\ sentence_cache' = CachePut(sentence_cache, result)
       /\ current_sentence_id' = result.sid
       /\ IF Commits(CachePut(sentence_cache, result),
                     current_sentence_id, result)
          THEN /\ records' =
                    RecordTranslation(
                      records, current_sentence_id,
                      CachePut(sentence_cache, result)[current_sentence_id],
                      "commit")
               /\ has_result' = TRUE
          ELSE UNCHANGED <<records, has_result>>
  /\ got' = [got EXCEPT !["result"] = NoResult]
  /\ upc' = [upc EXCEPT !["result"] = "r_loop"]
  /\ UNCHANGED <<result_queue, sentence_config, last_event_time,
                 realtime_calls, nevents, arrived, handed, is_running,
                 unit_stop_event>>
  /\ UNCHANGED <<unit_stop_calls, status_reports>>
  /\ UNCHANGED <<mvars, hvars, gvars, ovars, avars>>

\* translator_unit.py:349-354: on leaving the loop the open sentence is
\* recorded
process_result_flush ==
  /\ upc["result"] = "r_flush"
  /\ records' =
       IF current_sentence_id # NoSentence
          /\ sentence_cache[current_sentence_id] # NoPair
       THEN RecordTranslation(records, current_sentence_id,
                              sentence_cache[current_sentence_id], "flush")
       ELSE records
  /\ upc' = [upc EXCEPT !["result"] = "dead"]
  /\ UNCHANGED <<result_queue, sentence_config, last_event_time,
                 realtime_calls, nevents, arrived, handed, is_running,
                 unit_stop_event, sentence_cache, current_sentence_id,
                 has_result, processed>>
  /\ UNCHANGED <<mvars, hvars, gvars, yvars>>

\* Thread.is_alive() of a thread of the unit
UnitAlive(th) == upc[th] \notin {"unborn", "dead"}

(* --------------------------- _process_audio --------------------------- *)
\* translator_unit.py:250-253: the loop condition of the forwarding thread,
\* tested when the call before has returned; then audio_queue.get(timeout=1.0)
\* begins
forward_loop ==
  /\ upc["process"] = "p_loop"
  /\ pc["prod"] = "idle"
  /\ IF unit_stop_event
     THEN /\ upc' = [upc EXCEPT !["process"] = "dead"]
          /\ UNCHANGED wait
     ELSE /\ upc' = [upc EXCEPT !["process"] = "p_get"]
          /\ wait' = [wait EXCEPT !["process"] = GetTimeout]
  /\ UNCHANGED <<result_queue, sentence_config, last_event_time,
                 realtime_calls, nevents, arrived, handed, is_running,
                 unit_stop_event, sentence_cache, current_sentence_id,
                 has_result, records, processed, recording, unit_log_closed,
                 join_warnings>>
  /\ UNCHANGED <<mvars, hvars, gvars, svars, ovars>>

\* translator_unit.py:253-258, 266-267: the get returns a frame of the
\* recorder, which goes to translator.process_audio at once, or raises
\* queue.Empty when its second is over
forward_get ==
  /\ upc["process"] = "p_get"
  /\ \/ process_audio_call(InputFrames(nframes + 1))
     \/ wait["process"] = 0 /\ UNCHANGED mvars
  /\ upc' = [upc EXCEPT !["process"] = "p_loop"]
  /\ wait' = [wait EXCEPT !["process"] = 0]
  /\ UNCHANGED <<result_queue, sentence_config, last_event_time,
                 realtime_calls, nevents, arrived, handed, is_running,
                 unit_stop_event, sentence_cache, current_sentence_id,
                 has_result, records, processed, recording, unit_log_closed,
                 join_warnings>>
  /\ UNCHANGED <<hvars, gvars, svars, ovars>>

\* the unit threads that are in a wait with a timeout
TimedWaits ==
  {th \in UnitThreads :
     \/ th = "main" /\ upc[th] \in {"u_join_process", "u_join"}
     \/ th = "process" /\ upc[th] = "p_get"}

\* translator_unit.py:253, 606, 616: one second passes for every thread that
\* is in a wait with a timeout
second_passes ==
  /\ \E th \in TimedWaits : wait[th] > 0
  /\ wait' = [th \in UnitThreads |->
                IF th \in TimedWaits /\ wait[th] > 0 THEN wait[th] - 1
                ELSE wait[th]]
  /\ UNCHANGED <<recording, unit_log_closed, join_warnings>>
  /\ UNCHANGED <<mvars, hvars, gvars, rvars, svars, ovars>>

\* translator_unit.py:606, 616: join(timeout=2.0) returns when the thread
\* has ended or the timeout is over
JoinReturns(th) == ~UnitAlive(th) \/ wait["main"] = 0

(* --------------------------- unit stop() ------------------------------ *)
\* translator_unit.py:587-602: stop() is called on the owner's thread; on a
\* unit that is not running it returns at once. limit bounds the stop()
\* calls of a run.
unit_stop_call(limit) ==
  /\ upc["main"] \in {"new", "idle", "u_done"}
  /\ unit_stop_calls < limit
  /\ unit_stop_calls' = unit_stop_calls + 1
  /\ IF ~is_running
     THEN UNCHANGED <<is_running, unit_stop_event, upc, wait>>
     ELSE /\ is_running' = FALSE
          /\ unit_stop_event' = TRUE
          /\ upc' = [upc EXCEPT !["main"] = "u_join_process"]
          /\ wait' = [wait EXCEPT !["main"] = JoinTimeout]
  /\ UNCHANGED <<result_queue, sentence_config, last_event_time,
                 realtime_calls, nevents, arrived, handed, sentence_cache,
                 current_sentence_id, has_result, records, processed,
                 status_reports, got, recording, unit_log_closed,
                 join_warnings>>
  /\ UNCHANGED <<mvars, hvars, gvars>>

\* translator_unit.py:587-602: the owner calls stop()
unit_stop(limit) == unit_stop_call(limit) /\ UNCHANGED ovars

\* translator_unit.py:605-611, 615-621: join(timeout=2.0) returns when the
\* thread has ended or when the two seconds are over; a thread that is
\* still alive then gets a warning in the log
JoinWarnings(w, th) == IF UnitAlive(th) THEN w \cup {th} ELSE w

\* translator_unit.py:605-611: the join of the forwarding thread
unit_join_process ==
  /\ upc["main"] = "u_join_process"
  /\ upc' = [upc EXCEPT !["main"] = "u_join"]
  /\ join_warnings' = JoinWarnings(join_warnings, "process")
  /\ wait' = [wait EXCEPT !["main"] = JoinTimeout]
  /\ UNCHANGED <<result_queue, sentence_config, last_event_time,
                 realtime_calls, nevents, arrived, handed, is_running,
                 unit_stop_event, sentence_cache, current_sentence_id,
                 has_result, records, processed, recording, unit_log_closed>>
  /\ UNCHANGED <<mvars, hvars, gvars, svars, ovars>>

\* translator_unit.py:615-621: the join of the result thread
unit_join ==
  /\ upc["main"] = "u_join"
  /\ upc' = [upc EXCEPT !["main"] = "u_stop_recording"]
  /\ join_warnings' = JoinWarnings(join_warnings, "result")
  /\ wait' = [wait EXCEPT !["main"] = 0]
  /\ UNCHANGED <<result_queue, sentence_config, last_event_time,
                 realtime_calls, nevents, arrived, handed, is_running,
                 unit_stop_event, sentence_cache, current_sentence_id,
                 has_result, records, processed, recording, unit_log_closed>>
  /\ UNCHANGED <<mvars, hvars, gvars, svars, ovars>>

\* translator_unit.py:624-631 with audio_recorder.py:320-350: a recorder
\* that is recording is stopped: stop_recording clears the flag (323) and
\* returns when the capture thread has ended (328-332: the poll, then
\* thread.join() with no timeout)
unit_stop_recording ==
  /\ upc["main"] \in {"u_stop_recording", "u_stop_recording_join"}
  /\ IF upc["main"] = "u_stop_recording" /\ recording
     THEN /\ recording' = FALSE
          /\ upc' = [upc EXCEPT !["main"] = "u_stop_recording_join"]
     ELSE /\ upc["main"] = "u_stop_recording_join" => rpc \in {"unborn", "dead"}
          /\ upc' = [upc EXCEPT !["main"] = "u_translator_stop"]
          /\ UNCHANGED recording
  /\ UNCHANGED <<result_queue, sentence_config, last_event_time,
                 realtime_calls, nevents, arrived, handed, is_running,
                 unit_stop_event, sentence_cache, current_sentence_id,
                 has_result, records, processed, unit_log_closed,
                 join_warnings, wait>>
  /\ UNCHANGED <<mvars, hvars, gvars, svars, ovars>>

\* translator_unit.py:634-636: translator.stop()
unit_translator_stop ==
  /\ upc["main"] = "u_translator_stop"
  /\ nstops = 0
  /\ stop_call

\* translator_unit.py:644: _save_all_results is entered when the manager's
\* stop() has returned
unit_save ==
  /\ upc["main"] = "u_translator_stop"
  /\ nstops = 1
  /\ pc["ui"] = "idle"
  /\ upc' = [upc EXCEPT !["main"] = "u_drain"]
  /\ UNCHANGED <<result_queue, sentence_config, last_event_time,
                 realtime_calls, nevents, arrived, handed, is_running,
                 unit_stop_event, sentence_cache, current_sentence_id,
                 has_result, records, processed>>
  /\ UNCHANGED <<mvars, hvars, gvars, yvars>>

\* translator_unit.py:359-374, 385, 645-649: get_result of one turn of the
\* drain: a result with a text is kept in the local variable; an empty
\* queue ends the drain, report_result_status follows, and stop() closes the
\* logger and returns
save_all_results ==
  /\ upc["main"] = "u_drain"
  /\ LET result == GetResult(result_queue) IN
       /\ result_queue' = AfterGetResult(result_queue)
       /\ handed' = HandedAfter(handed, result)
       /\ IF result.original = NoText /\ result.translated = NoText
          THEN /\ upc' = [upc EXCEPT !["main"] = "u_done"]
               /\ status_reports' = status_reports + 1
               /\ unit_log_closed' = TRUE
               /\ UNCHANGED got
          ELSE /\ got' = [got EXCEPT !["main"] = result]
               /\ upc' = [upc EXCEPT !["main"] = "u_drain_record"]
               /\ UNCHANGED <<status_reports, unit_log_closed>>
  /\ UNCHANGED <<sentence_config, last_event_time, realtime_calls, nevents,
                 arrived, is_running, unit_stop_event, sentence_cache,
                 current_sentence_id, has_result, records, processed,
                 unit_stop_calls, recording, join_warnings, wait>>
  /\ UNCHANGED <<mvars, hvars, gvars, ovars>>

\* translator_unit.py:376-380: the result the drain holds is recorded when
\* it has both texts
save_record ==
  /\ upc["main"] = "u_drain_record"
  /\ records' = RecordTranslation(
                  records, got["main"].sid,
                  [original |-> got["main"].original,
                   translated |-> got["main"].translated], "drain")
  /\ got' = [got EXCEPT !["main"] = NoResult]
  /\ upc' = [upc EXCEPT !["main"] = "u_drain"]
  /\ UNCHANGED <<result_queue, sentence_config, last_event_time,
                 realtime_calls, nevents, arrived, handed, is_running,
                 unit_stop_event, sentence_cache, current_sentence_id,
                 has_result, processed>>
  /\ UNCHANGED <<unit_stop_calls, status_reports>>
  /\ UNCHANGED <<mvars, hvars, gvars, ovars, avars>>

ResultStep ==
  \/ process_result_loop
  \/ process_result
  \/ process_result_record
  \/ process_result_flush

(* ------------------ the manager's callbacks in a unit ----------------- *)
\* translator_manager.py:44-48, translator_unit.py:125-132: the handlers in
\* the callbacks dict of the manager a unit builds. The unit passes
\* _realtime_update to the constructor and stores _on_error and _on_warning
\* in the attributes error_callback and warning_callback of the manager,
\* which nothing reads; the dict keeps empty_callback.
manager_callbacks ==
  [realtime |-> "_realtime_update", error |-> "empty_callback",
   warning |-> "empty_callback"]

\* translator_manager.py:104-107, 132-133, 375-376: the calls of the unit's
\* _on_error that the manager's calls of callbacks['error'] have made
on_error_deliveries ==
  IF manager_callbacks.error = "_on_error" THEN error_calls ELSE 0

(* ---------------------------- AudioRecorder -------------------------- *)
\* audio_recorder.py:200: the rates _set_samplerate probes, in this order
sample_rates == <<16000, 44100, 48000, 22050, 11025, 8000>>

\* a device of sd.query_devices(): input says max_input_channels > 0,
\* stereo_mix that its name is a stereo-mix name, valid that
\* sd.check_input_settings(device=id) passes. Device ids count from 0.
Devices == [input : BOOLEAN, stereo_mix : BOOLEAN, valid : BOOLEAN]

\* audio_recorder.py:42-46: the ids of the devices with input channels
valid_input_devices(devices) ==
  {i \in 0..(Len(devices) - 1) : devices[i + 1].input}

\* the first id of a list of ids in device order
Lowest(ids) == CHOOSE i \in ids : \A j \in ids : i <= j

\* audio_recorder.py:90-111: a stereo-mix device, else the default input
\* device, else the first device with input channels
select_device(env) ==
  LET valid == valid_input_devices(env.devices)
      mix == {i \in valid : env.devices[i + 1].stereo_mix}
  IN  IF mix # {} THEN Lowest(mix)
      ELSE IF env.default \in valid THEN env.default
      ELSE Lowest(valid)

\* audio_recorder.py:200-215: the first rate from position i on that
\* check_input_settings accepts, else 16000
RECURSIVE ProbeFrom(_, _)
ProbeFrom(i, rates) ==
  IF i > Len(sample_rates) THEN FallbackSampleRate
  ELSE IF sample_rates[i] \in rates THEN sample_rates[i]
  ELSE ProbeFrom(i + 1, rates)

\* a _set_samplerate that does not probe
set_samplerate_Unprobed(env) ==
  IF env.default_samplerate # 0 THEN env.default_samplerate
  ELSE FallbackSampleRate

\* audio_recorder.py:185-221: the device's default rate when it has one
\* (0 stands for none), else the first probed rate that validates
set_samplerate(env) ==
  IF env.default_samplerate # 0 THEN env.default_samplerate
  ELSE ProbeFrom(1, env.rates)

\* audio_recorder.py:36-88: dev holds the id and the rate before the call;
\* env.query_ok says that sd.query_devices() does not raise OSError
initialize_audio_device(env, dev) ==
  IF ~env.query_ok THEN dev
  ELSE IF valid_input_devices(env.devices) = {} THEN [dev EXCEPT !.id = -1]
  ELSE IF env.devices[select_device(env) + 1].valid
       THEN [id |-> select_device(env), rate |-> set_samplerate(env)]
       ELSE [dev EXCEPT !.id = -1]

\* audio_recorder.py:113-157: the id after _switch_to_next_device
switch_to_next_device(env, id) ==
  LET valid == valid_input_devices(env.devices)
      later == {i \in valid : i > id}
      next == IF id \in valid /\ later # {} THEN Lowest(later)
              ELSE Lowest(valid)
  IN  IF ~env.query_ok \/ valid = {} THEN id
      ELSE IF env.devices[next + 1].valid THEN next
      ELSE id

\* audio_recorder.py:20-34: __init__ on a machine whose sounddevice is env
RecorderInit(env) ==
  /\ sd = env
  /\ LET dev == initialize_audio_device(
                  env, [id |-> -1, rate |-> ConfigSampleRate])
     IN  audio_device_id = dev.id /\ SAMPLE_RATE = dev.rate
  /\ rpc = "unborn"
  /\ retry_count = 0
  /\ stream_opens = 0
  /\ slept = 0
  /\ recordings = 0
  /\ spc = "idle"
  /\ stop_waited = 0

\* a caller of start_recording (audio_recorder.py:311) on a recorder that
\* is not recording
start_recording ==
  /\ spc = "idle"
  /\ ~recording
  /\ recordings < MaxRecordings
  /\ StartRecording
  /\ UNCHANGED <<sd, audio_device_id, SAMPLE_RATE, spc, stop_waited,
                 unit_log_closed, join_warnings, wait>>
  /\ UNCHANGED <<mvars, hvars, gvars, rvars, svars, evars, pvars, kvars>>

\* a loop that goes on up to and including max_retries
KeepsTrying_OneMore(retries, active) == retries <= max_retries /\ active

\* audio_recorder.py:251: while retry_count < max_retries and self.recording
KeepsTrying(retries, active) == retries < max_retries /\ active

\* a loop that goes on to the stream whatever the id is
AfterDeviceCheck_Ignored(id) == "r_open"

\* audio_recorder.py:254-258: with no device the turn ends after the sleep
AfterDeviceCheck(id) == IF id = -1 THEN "r_loop" ELSE "r_open"

\* audio_recorder.py:251-258, 307-309: the loop condition and the device
\* check of one turn; when the loop is over the thread logs the failure,
\* clears recording and ends
record_loop ==
  /\ rpc = "r_loop"
  /\ IF KeepsTrying(retry_count, recording)
     THEN LET dev == IF audio_device_id = -1
                     THEN initialize_audio_device(
                            sd, [id |-> -1, rate |-> SAMPLE_RATE])
                     ELSE [id |-> audio_device_id, rate |-> SAMPLE_RATE]
          IN  /\ audio_device_id' = dev.id
              /\ SAMPLE_RATE' = dev.rate
              /\ rpc' = AfterDeviceCheck(dev.id)
              /\ IF dev.id = -1
                 THEN /\ retry_count' = retry_count + 1
                      /\ slept' = slept + retry_sleep
                 ELSE UNCHANGED <<retry_count, slept>>
              /\ UNCHANGED recording
     ELSE /\ recording' = FALSE
          /\ rpc' = "dead"
          /\ UNCHANGED <<audio_device_id, SAMPLE_RATE, retry_count, slept>>
  /\ UNCHANGED <<sd, stream_opens, recordings, spc, stop_waited,
                 unit_log_closed, join_warnings, wait>>
  /\ UNCHANGED <<mvars, hvars, gvars, rvars, svars, evars, pvars, kvars>>

\* audio_recorder.py:260-303: sd.InputStream(...) opens the stream, raises
\* OSError, after which the thread switches the device and sleeps, or does
\* not return
record_open ==
  /\ rpc = "r_open"
  /\ stream_opens' = stream_opens + 1
  /\ \E outcome \in {"open", "OSError", "blocked"} :
       IF outcome = "OSError"
       THEN /\ retry_count' = retry_count + 1
            /\ audio_device_id' = switch_to_next_device(sd, audio_device_id)
            /\ slept' = slept + retry_sleep
            /\ rpc' = "r_loop"
       ELSE /\ rpc' = IF outcome = "open" THEN "r_stream" ELSE "r_blocked"
            /\ UNCHANGED <<retry_count, audio_device_id, slept>>
  /\ UNCHANGED <<sd, SAMPLE_RATE, recordings, spc, stop_waited>>
  /\ UNCHANGED <<mvars, hvars, gvars, rvars, svars, evars, pvars, kvars,
                 avars>>

\* audio_recorder.py:291-293: the thread returns when recording is cleared
record_stream ==
  /\ rpc = "r_stream"
  /\ ~recording
  /\ rpc' = "dead"
  /\ UNCHANGED <<sd, audio_device_id, SAMPLE_RATE, retry_count, stream_opens,
                 slept, recordings, spc, stop_waited>>
  /\ UNCHANGED <<mvars, hvars, gvars, rvars, svars, evars, pvars, kvars,
                 avars>>

\* audio_recorder.py:320-325: stop_recording clears recording and waits for
\* a thread that is alive
stop_recording ==
  /\ spc = "idle"
  /\ recording
  /\ recording' = FALSE
  /\ spc' = IF rpc \in {"unborn", "dead"} THEN "idle" ELSE "waiting"
  /\ stop_waited' = 0
  /\ UNCHANGED <<sd, audio_device_id, SAMPLE_RATE, rpc, retry_count,
                 stream_opens, slept, recordings, unit_log_closed,
                 join_warnings, wait>>
  /\ UNCHANGED <<mvars, hvars, gvars, rvars, svars, evars, pvars, kvars>>

\* audio_recorder.py:326-332: a second passes while the capture thread does
\* not return from the library: stop_recording polls is_alive() for
\* stop_timeout seconds and is in thread.join() after that
stop_recording_waits ==
  /\ spc = "waiting"
  /\ rpc = "r_blocked"
  /\ stop_waited < MaxStopWait
  /\ stop_waited' = stop_waited + 1
  /\ UNCHANGED <<sd, audio_device_id, SAMPLE_RATE, rpc, retry_count,
                 stream_opens, slept, recordings, spc>>
  /\ UNCHANGED <<mvars, hvars, gvars, rvars, svars, evars, pvars, kvars,
                 avars>>

\* audio_recorder.py:329-350: the poll ends with the thread or after
\* stop_timeout; thread.join() returns when the thread has ended; then the
\* queue is emptied and stop_recording returns
stop_recording_returns ==
  /\ spc = "waiting"
  /\ rpc = "dead"
  /\ spc' = "idle"
  /\ UNCHANGED <<sd, audio_device_id, SAMPLE_RATE, rpc, retry_count,
                 stream_opens, slept, recordings, stop_waited>>
  /\ UNCHANGED <<mvars, hvars, gvars, rvars, svars, evars, pvars, kvars,
                 avars>>

\* one device with input channels that validates and has a default rate
OneDevice ==
  [devices |-> <<[input |-> TRUE, stereo_mix |-> FALSE, valid |-> TRUE]>>,
   default |-> 0, default_samplerate |-> ConfigSampleRate, rates |-> {},
   query_ok |-> TRUE]

(* ------------- TranslatorUnit: the startup connectivity check --------- *)
\* the messages _check_initial_connection hands to _on_error: INFO's
\* network_error (191) and api_connection_error with contact_for_help (226)
UnitMessages == {"network_error", "api_connection_error"}

\* translator_unit.py:81-96 and message_center.py:29-43, in a process that
\* has shown no critical message yet; window says whether the unit was built
\* with a subtitle window, keywords which messages INFO's
\* network_error_keywords match (module/info.py holds the texts), handler
\* whether set_callbacks (message_center.py:62-64) has registered a handler
\* of critical messages
ConnectInit(window, keywords, handler) ==
  /\ cpc = "idle"
  /\ epc = "idle"
  /\ attempt = 0
  /\ check_attempts = 0
  /\ check_sleeps = 0
  /\ is_connected = FALSE
  /\ ui_state = [last_error |-> "", since_error |-> ui_error_cooldown,
                 network_error_stopped |-> FALSE,
                 connection_error_shown |-> FALSE,
                 subtitle_window |-> window, dialogs |-> <<>>,
                 last_message |-> <<>>, since_message |-> critical_cooldown,
                 critical_callback |-> handler, callback_calls |-> <<>>]
  /\ network_error_keywords = keywords
  /\ check_invocations = 0
  /\ check_result = "None"
  /\ ever_connected = FALSE

\* time that passes; the model keeps the time since the last error and the
\* time since the last critical message up to their cooldowns, beyond which
\* they make no difference
Elapse(u, d) ==
  [u EXCEPT !.since_error =
              IF @ + d < ui_error_cooldown THEN @ + d ELSE ui_error_cooldown,
            !.since_message =
              IF @ + d < critical_cooldown THEN @ + d ELSE critical_cooldown]

\* message_center.py:83-96, 152-177: show_critical drops a message that
\* repeats the text of the last critical message inside the cooldown; any
\* other becomes the last message and goes to the registered handler
\* (166-169) or, without one, into a modal box. A text is the sequence of
\* the INFO texts it is made of.
show_critical(u, title, text) ==
  IF text = u.last_message /\ u.since_message < critical_cooldown THEN u
  ELSE LET v == [u EXCEPT !.last_message = text, !.since_message = 0]
           message == [title |-> title, text |-> text]
       IN  IF u.critical_callback
           THEN [v EXCEPT !.callback_calls = Append(@, message)]
           ELSE [v EXCEPT !.dialogs = Append(@, message)]

\* translator_unit.py:432-437
should_ignore_duplicate_error(u, message) ==
  message = u.last_error /\ u.since_error < ui_error_cooldown

\* translator_unit.py:445-448
check_is_network_error(message) == message \in network_error_keywords

\* translator_unit.py:419-423: the branch that takes _handle_network_error
HandledAsNetworkError(u, message) ==
  /\ ~should_ignore_duplicate_error(u, message)
  /\ check_is_network_error(message)
  /\ ~u.network_error_stopped

\* translator_unit.py:409-430, 450-485, 491-512: _on_error. A network error
\* that was not handled before sets network_error_stopped and hands the
\* message, followed by INFO's network_error, to show_critical under the
\* title connection_failed (and calls stop()); any other message goes to
\* the subtitle window or, without one, to show_critical under the title
\* error
on_error_unit(u, message) ==
  IF should_ignore_duplicate_error(u, message) THEN u
  ELSE LET v == [u EXCEPT !.last_error = message, !.since_error = 0]
       IN  IF HandledAsNetworkError(u, message)
           THEN show_critical([v EXCEPT !.network_error_stopped = TRUE],
                              "connection_failed",
                              <<message, "network_error">>)
           ELSE IF u.subtitle_window THEN v
                ELSE show_critical(v, "error", <<message>>)

\* translator_unit.py:460-461, 587-592: _handle_network_error calls stop(),
\* which returns at its guard on a unit that is not running
StopsAfterError(u, message) ==
  IF HandledAsNetworkError(u, message) THEN 1 ELSE 0

\* translator_unit.py:182: for attempt in range(CONNECTION_CHECK_RETRIES)
LoopPosition(i) ==
  IF i < CONNECTION_CHECK_RETRIES THEN "attempt" ELSE "exhausted"

\* translator_unit.py:161-180: the unit is not running, as in __init__ (153)
check_initial_connection ==
  /\ cpc = "idle"
  /\ upc["main"] \in {"new", "u_done"}
  /\ check_invocations < MaxChecks
  /\ check_invocations' = check_invocations + 1
  /\ is_connected' = FALSE
  /\ attempt' = 0
  /\ check_attempts' = 0
  /\ check_sleeps' = 0
  /\ cpc' = LoopPosition(0)
  /\ UNCHANGED <<epc, ui_state, network_error_keywords, check_result,
                 ever_connected>>
  /\ UNCHANGED <<mvars, hvars, gvars, rvars, svars, evars, pvars, avars, dvars>>

\* translator_unit.py:183-216: one pass of the loop up to the sleep. Either
\* check answers at once or after as much as its timeout; a modal box that
\* _on_error opens stays until the user closes it, at once or when the
\* cooldown of critical messages is over
check_attempt ==
  /\ cpc = "attempt"
  /\ \E internet \in BOOLEAN, dashscope \in BOOLEAN,
        d1 \in {0, NETWORK_CHECK_TIMEOUT}, d2 \in {0, critical_cooldown},
        d3 \in {0, NETWORK_CHECK_TIMEOUT} :
       LET u == Elapse(ui_state, d1)
           v == IF internet THEN u ELSE on_error_unit(u, "network_error")
       IN  /\ v.dialogs # u.dialogs \/ d2 = 0
           /\ ui_state' = Elapse(v, d2 + d3)
           /\ unit_stop_calls' =
                IF internet THEN unit_stop_calls
                ELSE unit_stop_calls + StopsAfterError(u, "network_error")
           /\ check_attempts' = check_attempts + 1
           /\ IF dashscope
              THEN /\ is_connected' = TRUE
                   /\ check_result' = "True"
                   /\ ever_connected' = TRUE
                   /\ cpc' = "idle"
              ELSE /\ cpc' = "sleep"
                   /\ UNCHANGED <<is_connected, check_result, ever_connected>>
  /\ UNCHANGED <<epc, attempt, check_sleeps, network_error_keywords,
                 check_invocations, status_reports, got>>
  /\ UNCHANGED <<mvars, hvars, gvars, rvars, evars, pvars, avars, dvars>>

\* translator_unit.py:217: time.sleep(CONNECTION_CHECK_DELAY) ends the pass
check_sleep ==
  /\ cpc = "sleep"
  /\ check_sleeps' = check_sleeps + 1
  /\ ui_state' = Elapse(ui_state, CONNECTION_CHECK_DELAY)
  /\ attempt' = attempt + 1
  /\ cpc' = LoopPosition(attempt + 1)
  /\ UNCHANGED <<epc, check_attempts, is_connected, network_error_keywords,
                 check_invocations, check_result, ever_connected>>
  /\ UNCHANGED <<mvars, hvars, gvars, rvars, svars, evars, pvars, avars, dvars>>

\* translator_unit.py:229-237: the call of show_critical behind
\* connection_error_shown, with the text line 226 handed to _on_error
ShowConnectionError(u) ==
  IF u.connection_error_shown THEN u
  ELSE show_critical([u EXCEPT !.connection_error_shown = TRUE],
                     "connection_failed", <<"api_connection_error">>)

\* translator_unit.py:219-246: every attempt has failed: the message goes to
\* _on_error and the guarded call of show_critical follows; each modal box
\* stays until the user closes it, at once or when the cooldown of critical
\* messages is over
check_exhausted ==
  /\ cpc = "exhausted"
  /\ \E d1 \in {0, critical_cooldown}, d2 \in {0, critical_cooldown} :
       LET v == on_error_unit(ui_state, "api_connection_error")
           w == ShowConnectionError(Elapse(v, d1))
       IN  /\ v.dialogs # ui_state.dialogs \/ d1 = 0
           /\ w.dialogs # v.dialogs \/ d2 = 0
           /\ ui_state' = Elapse(w, d2)
  /\ unit_stop_calls' =
       unit_stop_calls + StopsAfterError(ui_state, "api_connection_error")
  /\ is_connected' = FALSE
  /\ check_result' = "False"
  /\ cpc' = "idle"
  /\ UNCHANGED <<epc, attempt, check_attempts, check_sleeps,
                 network_error_keywords, check_invocations, ever_connected,
                 status_reports, got>>
  /\ UNCHANGED <<mvars, hvars, gvars, rvars, evars, pvars, avars, dvars>>

\* translator_unit.py:409-430, 450-459, 491-512: _on_error is called on a
\* unit that start() has started, some time after the error before. A network
\* error that is handled as one sets network_error_stopped and calls
\* show_critical; a modal box stays until the user closes it, at once or
\* when the cooldown of critical messages is over, and then the handler goes
\* on
unit_on_error ==
  /\ upc["main"] = "idle"
  /\ cpc = "idle"
  /\ epc = "idle"
  /\ Len(ui_state.dialogs) + Len(ui_state.callback_calls) < MaxDialogs
  /\ \E message \in UnitMessages,
        d \in {0, critical_cooldown, ui_error_cooldown},
        d2 \in {0, critical_cooldown} :
       LET u == Elapse(ui_state, d)
           v == on_error_unit(u, message)
       IN  /\ v.dialogs # u.dialogs \/ d2 = 0
           /\ ui_state' = Elapse(v, d2)
           /\ epc' = IF HandledAsNetworkError(u, message)
                     THEN "dialog" ELSE "idle"
  /\ UNCHANGED <<cpc, attempt, check_attempts, check_sleeps, is_connected,
                 network_error_keywords, check_invocations, check_result,
                 ever_connected>>
  /\ UNCHANGED <<mvars, hvars, gvars, rvars, svars, avars, evars, pvars,
                 dvars>>

\* translator_unit.py:460-466 and 587-602: show_critical has returned and
\* _handle_network_error calls stop(), which returns at its guard when the
\* unit is not running any more
handle_network_error ==
  /\ epc = "dialog"
  /\ epc' = "idle"
  /\ unit_stop_calls' = unit_stop_calls + 1
  /\ IF ~is_running
     THEN UNCHANGED <<is_running, unit_stop_event, upc, wait>>
     ELSE /\ is_running' = FALSE
          /\ unit_stop_event' = TRUE
          /\ upc' = [upc EXCEPT !["main"] = "u_join_process"]
          /\ wait' = [wait EXCEPT !["main"] = JoinTimeout]
  /\ UNCHANGED <<result_queue, sentence_config, last_event_time,
                 realtime_calls, nevents, arrived, handed, sentence_cache,
                 current_sentence_id, has_result, records, processed,
                 status_reports, got, recording, unit_log_closed,
                 join_warnings>>
  /\ UNCHANGED <<cpc, attempt, check_attempts, check_sleeps, is_connected,
                 ui_state, network_error_keywords, check_invocations,
                 check_result, ever_connected>>
  /\ UNCHANGED <<mvars, hvars, gvars, evars, pvars, dvars>>

(* --------------------------- specifications --------------------------- *)
\* a unit with a subtitle window, as ui.py:1722 builds it
Init ==
  /\ ManagerInit /\ BridgeInit /\ UnitInit /\ ConnectInit(TRUE, {}, FALSE)
  /\ RecorderInit(OneDevice)

\* The program as the orchestrator drives it: one start() per manager
\* (ui.py:1722-1725 builds a new unit for every session)
Next ==
  \/ start(1)
  \/ start_translator
  \/ start_running
  \/ start_consumer
  \/ stop_call
  \/ \E t \in Threads : StopStep(t)
  \/ process_audio
  \/ process_audio_put
  \/ \E c \in Consumers : ConsumerStep(c)
  \/ on_network_error
  \/ on_network_error_notify
  \/ connection_lost

Spec == Init /\ [][Next]_vars

\* start(), stop() of the owner, the producer and the consumer loop on a
\* connection that can break; the recognizer reports no error of its own
NextSend ==
  \/ start(1)
  \/ start_translator
  \/ start_running
  \/ start_consumer
  \/ stop_call
  \/ \E t \in {"ui"} \cup Consumers : StopStep(t)
  \/ process_audio
  \/ process_audio_put
  \/ \E c \in Consumers : ConsumerStep(c)
  \/ connection_lost

SpecSend == Init /\ [][NextSend]_vars

\* start(), stop(), the producer and the consumer loop, with
\* _check_connection called on a thread of its own
NextHeartbeat ==
  \/ start(1)
  \/ start_translator
  \/ start_running
  \/ start_consumer
  \/ stop_call
  \/ \E t \in Threads : StopStep(t)
  \/ process_audio
  \/ process_audio_put
  \/ \E c \in Consumers : ConsumerStep(c)
  \/ connection_lost
  \/ HeartbeatStep

SpecHeartbeat == Init /\ [][NextHeartbeat]_vars

\* A running pipeline, the clock, and direct calls of the notification methods
NextNotify ==
  \/ start(1)
  \/ start_translator
  \/ start_running
  \/ start_consumer
  \/ process_audio
  \/ process_audio_put
  \/ \E c \in Consumers : ConsumerStep(c)
  \/ send_warning_notification
  \/ send_error_notification
  \/ tick

SpecNotify == Init /\ [][NextNotify]_vars

\* the texts a caller passes to either notification method
RepeatedMessages == {"connection lost", "buffer full"}

repeat_error == error_notification(MaxRepeats, RepeatedMessages)

repeat_warning == warning_notification(MaxRepeats, RepeatedMessages)

\* The two notification methods called with the same texts while the clock
\* runs
NextDedup ==
  \/ repeat_error
  \/ repeat_warning
  \/ tick

SpecDedup == Init /\ [][NextDedup]_vars

\* the capture thread of a session on a machine whose stream opens: it runs
\* while the owner sleeps in start() and while a stop_recording waits for
\* it to end
capture_thread ==
  /\ \/ upc["main"] \in {"u_settle", "u_stop_recording_join"}
     \/ \E t \in Threads : pc[t] = "stop_recorder_join"
  /\ \/ record_loop
     \/ record_open /\ rpc' = "r_stream"
     \/ record_stream

\* the 0.5 s of start() are over when the capture thread has opened its
\* stream
settled == rpc = "r_stream" /\ unit_settle

\* an event of a recognizer that numbers the sentences it transcribes: a
\* result with a transcribed text comes under a sentence id
numbered_event ==
  /\ on_event
  /\ arrived' # arrived
       => LET e == arrived'[Len(arrived')]
          IN  e.original # NoText => e.sid \in SentenceIds

\* One session of a TranslatorUnit, seen from its result path: the unit is
\* started and stopped once, the recognizer delivers events while it runs
NextResult ==
  \/ unit_start
  \/ capture_thread
  \/ settled
  \/ unit_translator_start
  \/ start_translator
  \/ start_running
  \/ start_consumer
  \/ unit_spawn
  \/ numbered_event
  \/ ResultStep
  \/ unit_stop(1)
  \/ unit_join_process
  \/ unit_join
  \/ unit_stop_recording
  \/ unit_translator_stop
  \/ StopStep("ui")
  \/ unit_save
  \/ save_all_results
  \/ save_record

SpecResult == Init /\ [][NextResult]_vars

\* A running session: the unit is started, the recognizer delivers events
\* under sentence ids and the result thread takes them
NextCommit ==
  \/ unit_start
  \/ capture_thread
  \/ settled
  \/ unit_translator_start
  \/ start_translator
  \/ start_running
  \/ start_consumer
  \/ unit_spawn
  \/ numbered_event
  \/ process_result_loop
  \/ process_result
  \/ process_result_record

SpecCommit == Init /\ [][NextCommit]_vars

\* A running session seen from the bridge: the recognizer delivers events,
\* with and without sentence ids, which stay on the queue
NextBridge ==
  \/ unit_start
  \/ capture_thread
  \/ settled
  \/ unit_translator_start
  \/ start_translator
  \/ start_running
  \/ start_consumer
  \/ on_event

SpecBridge == Init /\ [][NextBridge]_vars

\* A running session whose queued results are taken by the result thread
\* and by a caller of get_all_texts
NextTexts ==
  \/ unit_start
  \/ capture_thread
  \/ settled
  \/ unit_translator_start
  \/ start_translator
  \/ start_running
  \/ start_consumer
  \/ unit_spawn
  \/ on_event
  \/ process_result_loop
  \/ process_result
  \/ process_result_record
  \/ get_all_texts
  \/ get_all_texts_empty
  \/ get_all_texts_get

SpecTexts == Init /\ [][NextTexts]_vars

\* A running session in which some of the payloads are malformed
NextMalformed ==
  \/ unit_start
  \/ capture_thread
  \/ settled
  \/ unit_translator_start
  \/ start_translator
  \/ start_running
  \/ start_consumer
  \/ unit_spawn
  \/ on_event
  \/ on_event_malformed
  \/ process_result_loop
  \/ process_result
  \/ process_result_record

SpecMalformed == Init /\ [][NextMalformed]_vars

\* the manager used on its own, as module/test/test_translator_manager.py
\* uses it: start() at most once, then stop() calls in a row
own_start == upc["main"] = "new" /\ nstops = 0 /\ start(1)

\* the owner calls the manager's stop() itself: on a manager of its own, or
\* once more after the unit's stop() has returned
own_stop == upc["main"] \in {"new", "u_done"} /\ stop_call

\* a unit whose manager nobody else has used
owned_start == nstarts = 0 /\ nstops = 0 /\ unit_start

\* the recognizer delivers one event before the session is torn down
first_event == nevents = 0 /\ on_event

\* stop() called more than once with no start() in between, on a manager of
\* its own or on a unit. Only the owner stops: no audio arrives, no send fails.
NextStopTwice ==
  \/ own_start
  \/ start_translator
  \/ start_running
  \/ start_consumer
  \/ own_stop
  \/ StopStep("ui")
  \/ \E c \in Consumers :
       consume_loop(c) \/ consume_paused(c) \/ consume_get(c)
  \/ owned_start
  \/ capture_thread
  \/ settled
  \/ unit_translator_start
  \/ unit_spawn
  \/ first_event
  \/ ResultStep
  \/ unit_stop(MaxUnitStops)
  \/ unit_join_process
  \/ unit_join
  \/ unit_stop_recording
  \/ unit_translator_stop
  \/ unit_save
  \/ save_all_results
  \/ save_record

SpecStopTwice == Init /\ [][NextStopTwice]_vars

\* The start of a session on a machine whose input stream may open, fail or
\* hang, and the stop() calls of the owner that follow. time.sleep(0.5)
\* returns after 0.5 s at the earliest and nothing bounds the time until
\* start() reads the flag, so the capture thread and the owner take their
\* steps in any order.
NextSettle ==
  \/ owned_start
  \/ record_loop
  \/ record_open
  \/ record_stream
  \/ unit_settle
  \/ unit_translator_start
  \/ start_translator
  \/ start_running
  \/ start_consumer
  \/ \E c \in Consumers :
       consume_loop(c) \/ consume_paused(c) \/ consume_get(c)
  \/ unit_spawn
  \/ unit_stop(MaxUnitStops)
  \/ unit_join_process
  \/ unit_join
  \/ unit_stop_recording
  \/ unit_translator_stop
  \/ StopStep("ui")
  \/ unit_save
  \/ save_all_results

SpecSettle == Init /\ [][NextSettle]_vars

\* A session with its forwarding thread and its result thread that the
\* owner stops, with the time the waits of the unit take
NextTeardown ==
  \/ owned_start
  \/ capture_thread
  \/ settled
  \/ unit_translator_start
  \/ start_translator
  \/ start_running
  \/ start_consumer
  \/ unit_spawn
  \/ forward_loop
  \/ forward_get
  \/ process_audio_put
  \/ first_event
  \/ ResultStep
  \/ second_passes
  \/ unit_stop(1)
  \/ JoinReturns("process") /\ unit_join_process
  \/ JoinReturns("result") /\ unit_join
  \/ unit_stop_recording
  \/ unit_translator_stop
  \/ StopStep("ui")
  \/ unit_save
  \/ save_all_results
  \/ save_record

SpecTeardown == Init /\ [][NextTeardown]_vars

\* The manager with an owner that calls start() and stop() in any order and
\* more than once, and audio that is sent without failure
NextRestart ==
  \/ start(MaxStarts)
  \/ start_translator
  \/ start_running
  \/ start_consumer
  \/ stop_call
  \/ StopStep("ui")
  \/ process_audio
  \/ process_audio_put
  \/ \E c \in Consumers : ConsumerStep(c)

SpecRestart == Init /\ [][NextRestart]_vars

\* A started manager whose recognizer reports errors to the bridge
NextOnError ==
  \/ start(1)
  \/ start_translator
  \/ start_running
  \/ start_consumer
  \/ register_error_callback
  \/ on_error
  \/ StopStep("cb")
  \/ on_network_error_notify

SpecOnError == Init /\ [][NextOnError]_vars

\* The producer's gate: start() and stop() in any order, a connection that
\* can break, and _check_connection called on a thread of its own. The
\* consumer threads are not scheduled, so the buffer fills.
NextGate ==
  \/ start(MaxStarts)
  \/ start_translator
  \/ start_running
  \/ start_consumer
  \/ stop_call
  \/ StopStep("ui")
  \/ process_audio
  \/ process_audio_put
  \/ connection_lost
  \/ HeartbeatStep

SpecGate == Init /\ [][NextGate]_vars

\* The startup connectivity check of a unit that is not running, with or
\* without a subtitle window, for every keyword list INFO may hold, and with
\* or without a handler of critical messages
InitConnect ==
  /\ ManagerInit /\ BridgeInit /\ UnitInit /\ RecorderInit(OneDevice)
  /\ \E window \in BOOLEAN, keywords \in SUBSET UnitMessages,
        handler \in BOOLEAN :
       ConnectInit(window, keywords, handler)

NextConnect ==
  \/ check_initial_connection
  \/ check_attempt
  \/ check_sleep
  \/ check_exhausted

SpecConnect == InitConnect /\ [][NextConnect]_vars

\* one connectivity check, as __init__ makes it
check_once == check_invocations = 0 /\ check_initial_connection

\* A unit as ui.py:1722-1725 uses it: built, which runs the connectivity
\* check, and started; errors are handed to _on_error, and the owner stops it
NextErrorStop ==
  \/ check_once
  \/ check_attempt
  \/ check_sleep
  \/ check_exhausted
  \/ owned_start
  \/ capture_thread
  \/ settled
  \/ unit_translator_start
  \/ start_translator
  \/ start_running
  \/ start_consumer
  \/ unit_spawn
  \/ unit_on_error
  \/ handle_network_error
  \/ process_result_loop
  \/ process_result_flush
  \/ unit_stop(1)
  \/ unit_join_process
  \/ unit_join
  \/ unit_stop_recording
  \/ unit_translator_stop
  \/ StopStep("ui")
  \/ unit_save
  \/ save_all_results

SpecErrorStop == InitConnect /\ [][NextErrorStop]_vars

\* the device lists of the model
DeviceLists ==
  UNION {[1..n -> Devices] : n \in 0..MaxDevices}

\* what sounddevice reports: any devices with one probe result, or one
\* device with any probe results, or an OSError for the list of devices
SdEnvs ==
  {env \in [devices : DeviceLists, default : 0..(MaxDevices - 1),
            default_samplerate : {0, 22050},
            rates : SUBSET {sample_rates[i] : i \in 1..Len(sample_rates)},
            query_ok : BOOLEAN] :
     \/ env.devices = OneDevice.devices /\ env.default = 0 /\ env.query_ok
     \/ env.default_samplerate = 0 /\ env.rates = {44100}
          /\ (env.query_ok \/ env.devices = OneDevice.devices)}

\* a recorder built on any of these machines
InitRecorder ==
  /\ ManagerInit /\ BridgeInit /\ UnitInit /\ ConnectInit(TRUE, {}, FALSE)
  /\ \E env \in SdEnvs : RecorderInit(env)

\* The recorder on its own: start_recording, the capture thread and
\* stop_recording
NextRecorder ==
  \/ start_recording
  \/ record_loop
  \/ record_open
  \/ record_stream
  \/ stop_recording
  \/ stop_recording_waits
  \/ stop_recording_returns

SpecRecorder == InitRecorder /\ [][NextRecorder]_vars

(* ============================== claims ================================ *)
OkLog == SelectSeq(send_log, LAMBDA e : e.outcome = "ok")

\* the frames the recognizer received, in order
SentFrames == [i \in 1..Len(OkLog) |-> OkLog[i].frame]

IsPrefix(s, t) == Len(s) <= Len(t) /\ \A i \in 1..Len(s) : s[i] = t[i]

SendFailed == \E i \in DOMAIN send_log : send_log[i].outcome # "ok"

\* no stop has begun and no send has failed
Undisturbed == state.running /\ ~stop_event /\ ~SendFailed

\* no thread is inside start(), stop(), the consumer loop or the prober
Quiescent ==
  \A t \in Threads \ {"prod"} : pc[t] \in {"idle", "unborn", "dead"}

\* C1: the recognizer receives the frames process_audio accepted in the order
\* of their acceptance, none twice and none skipped: what was sent is always a
\* prefix of what was accepted, and in an undisturbed run everything that left
\* the buffer has been sent.
C1_FramesSentInOrder ==
  /\ IsPrefix(SentFrames, accepted)
  /\ (Undisturbed /\ audio_buffer = <<>> /\ \A c \in Consumers : held[c] = NoFrame)
       => SentFrames = accepted

\* two frames were accepted and both reached the recognizer
C1_Witness ==
  /\ Len(SentFrames) >= 2
  /\ SentFrames = accepted

\* C2: a put on a full buffer returns, leaves the buffer and the accepted
\* frames as they were, and invokes the warning callback once, whatever the
\* dedup record holds.
C2_OverflowWarnsAndDrops ==
  [][(pc["prod"] = "put" /\ pc'["prod"] = "idle"
        /\ Len(audio_buffer) >= AudioBufferMaxsize)
     => /\ warning_calls' = warning_calls + 1
        /\ audio_buffer' = audio_buffer
        /\ accepted' = accepted
        /\ pending' = NoFrame]_vars

\* an overflow happened while the same warning was inside its cooldown
C2_Witness == overflow_in_cooldown /\ overflows >= 1

\* C3 as stated: a failed send is the last call of send_audio_frame; the
\* consumer whose send met a transport error goes into stop(); and when all
\* threads have come to rest the pipeline is stopped with the recognizer
\* status stopped.
C3_SendFailureIsFatal ==
  /\ \A i \in DOMAIN send_log :
       send_log[i].outcome # "ok" => i = Len(send_log)
  /\ \A i \in DOMAIN send_log :
       send_log[i].outcome = "transport_error"
         => \/ cstop[send_log[i].by] >= 1
            \/ ~state.running /\ stop_event
  /\ (SendFailed /\ Quiescent)
       => /\ ~state.running
          /\ stop_event
          /\ state.translator_status = "stopped"

StatusChange ==
  <<state.translator_status, state'.translator_status>>

\* C4 as stated: every change of translator_status is one of the five listed
\* transitions.
C4_Original ==
  [][state'.translator_status # state.translator_status
       => StatusChange \in {<<"initialized", "running">>,
                            <<"initialized", "error">>,
                            <<"running", "stopping">>,
                            <<"stopping", "stopped">>,
                            <<"running", "disconnected">>}]_vars

\* C5 as stated: once the prober has set disconnected and its own stop logic
\* has finished, no later step changes the status.
C5_DisconnectedIsKept ==
  [][(state.translator_status = "disconnected" /\ pc["hb"] = "idle")
       => state'.translator_status = "disconnected"]_vars

\* C6 as stated: while the manager is started and the recognizer status is
\* running, a heartbeat prober is active.
C6_HeartbeatActive ==
  (state.running /\ state.translator_status = "running" /\ pc["ui"] = "idle")
    => threads.heartbeat # NoThread

(* ------------------------- the result path ---------------------------- *)
\* the results with both texts that the result thread took, in order
CompleteProcessed == SelectSeq(processed, Complete)

\* the last of them: the sentence that is open
OpenSentence ==
  IF CompleteProcessed = <<>> THEN NoResult
  ELSE CompleteProcessed[Len(CompleteProcessed)]

CommitOf(e) ==
  [sid |-> e.sid, original |-> e.original, translated |-> e.translated,
   by |-> "commit"]

PairOf(e) == [original |-> e.original, translated |-> e.translated]

\* the unit's stop() has returned and the result thread has ended
SessionOver ==
  /\ upc["main"] = "u_done"
  /\ upc["result"] \in {"unborn", "dead"}

\* C7 (as amended): when the result thread takes a result with both texts
\* whose sentence id differs from that of the last such result, it records
\* exactly the pair of that last result, once; a result that lacks a text, or
\* that continues the open sentence, records nothing.
C7_CommitOnNext ==
  [][processed' # processed
       => LET e == processed'[Len(processed')] IN
            IF Complete(e) /\ OpenSentence # NoResult
               /\ e.sid # OpenSentence.sid
            THEN records' = Append(records, CommitOf(OpenSentence))
            ELSE records' = records]_vars

\* two results of one sentence, then one of another: the only record is the
\* second pair of the first sentence
C7_Witness ==
  /\ Len(processed) = 3
  /\ \A i \in 1..3 : Complete(processed[i])
  /\ processed[1].sid = processed[2].sid
  /\ processed[1] # processed[2]
  /\ processed[3].sid # processed[2].sid
  /\ records = <<CommitOf(processed[2])>>

\* C7 as stated: when the result thread takes an event of an id other than
\* that of the event before it, it records the pair of the event before it.
C7_Original ==
  [][(processed' # processed /\ processed # <<>>)
       => LET e == processed'[Len(processed')]
              a == processed[Len(processed)]
          IN  e.sid # a.sid => records' = Append(records, CommitOf(a))]_vars

\* C8 as stated: a session that saw events of one sentence id only, each
\* with both texts, ends with exactly one record, holding the last pair
\* handed out.
C8_SingleSentenceOnce ==
  (/\ SessionOver
   /\ arrived # <<>>
   /\ \A i \in DOMAIN arrived :
        Complete(arrived[i]) /\ arrived[i].sid = arrived[1].sid)
    => /\ Len(records) = 1
       /\ PairOf(records[1]) = PairOf(handed[Len(handed)])

\* the last event that arrived under a sentence id
LastArrived(s) ==
  LET of == SelectSeq(arrived, LAMBDA e : e.sid = s)
  IN  IF of = <<>> THEN NoResult ELSE of[Len(of)]

\* C9 as stated: no sentence id has more than one record, and a record holds
\* the last event that arrived under its id.
C9_LastEventOncePerSentence ==
  /\ \A s \in QueuedIds :
       Cardinality({i \in DOMAIN records : records[i].sid = s}) <= 1
  /\ SessionOver
       => \A i \in DOMAIN records :
            PairOf(records[i]) = PairOf(LastArrived(records[i].sid))

\* C10 as stated: get_result and get_all_texts hand the events out in the
\* order on_event queued them.
C10_ResultQueueFifo == IsPrefix(handed, arrived)

(* --------------------------- repeated stop() -------------------------- *)
\* C11: a stop() that follows a stop() with no start() in between returns
\* from the guard and changes nothing, on the manager and on the unit alike:
\* the recognizer is stopped, the bridge closed and the shutdown report made
\* at most once, and the later call adds no record.
C11_SecondStopReleasesNothing ==
  /\ [](/\ translator.stop_calls <= 1
        /\ close_calls <= 1
        /\ status_reports <= 1)
  /\ [][/\ ((nstops >= 2 /\ nstops' = nstops /\ pc'["ui"] # pc["ui"])
              => (/\ pc["ui"] = "stop_guard"
                  /\ pc'["ui"] = "idle"
                  /\ UNCHANGED <<state, stop_event, translator, callback,
                                 close_calls, audio_buffer, threads>>))
         /\ ((unit_stop_calls' # unit_stop_calls
                /\ upc["main"] \in {"new", "u_done"})
              => UNCHANGED <<records, status_reports, is_running,
                             unit_stop_event, upc, nstops, translator,
                             callback, close_calls>>)]_vars

\* a session with a record was stopped twice through the unit, and the
\* manager's stop() was called once more after that
C11_Witness ==
  /\ unit_stop_calls = 2
  /\ nstops = 2
  /\ upc["main"] = "u_done"
  /\ pc["ui"] = "idle"
  /\ translator.stop_calls = 1
  /\ close_calls = 1
  /\ status_reports = 1
  /\ Len(records) >= 1

\* the positions of a thread inside stop(), past the guard
StopBody == {"stop_set", "stop_recorder", "stop_recorder_join",
             "stop_rec_check", "stop_rec_mark", "stop_rec_call",
             "stop_rec_stopped", "stop_rec_error", "stop_join", "stop_close",
             "stop_close_call", "stop_clear", "stop_buffer"}

\* C12 as stated, for the stop() a consumer thread makes after a send
\* failure: a stop() that passed the guard leaves only from its last step,
\* with the bridge closed and the audio buffer empty.
C12_StopCompletes ==
  [][\A t \in Consumers :
       (pc[t] \in StopBody /\ pc'[t] \notin StopBody)
         => /\ pc[t] = "stop_buffer"
            /\ callback' = "None"
            /\ audio_buffer' = <<>>]_vars

(* ------------------------------ start() ------------------------------- *)
\* C13 as stated: when the recognizer's start raises inside start(), the
\* status becomes error, start() returns without creating a consumer thread,
\* and the recognizer's start is never called again.
C13_StartFailureIsFinal ==
  /\ [](translator.start_calls <= 1)
  /\ [][(pc["ui"] = "start_translator"
           /\ translator'.start_calls # translator.start_calls
           /\ ~translator'.started)
         => (/\ state'.translator_status = "error"
             /\ threads' = threads
             /\ \A c \in Consumers : pc'[c] = pc[c]
             /\ pc'["ui"] = "idle")]_vars

\* C14 as stated: at any time at most one consumer thread is alive.
C14_OneConsumer == Cardinality({c \in Consumers : Alive(c)}) <= 1

(* --------------------------- process_audio ---------------------------- *)
\* a call of process_audio that returned at once: nothing but the count of
\* calls has changed
ProcessAudioNoEffect ==
  UNCHANGED <<state, stop_event, audio_buffer, threads, callback,
              message_deduplication, translator, has_is_running, now, pc,
              held, cstop, pending, accepted, send_log, warning_calls,
              error_calls, close_calls, nstarts, nstops, nneterrs, xvars>>

\* C15: a call of process_audio made while the manager is not running, the
\* stop signal is set or network_status is false has no effect; a call that
\* has an effect took in a frame that is not empty.
C15_ProcessAudioNoOp ==
  [][nframes' # nframes
       => /\ ((~state.running \/ stop_event \/ ~state.network_status)
                => ProcessAudioNoEffect)
          /\ (pc'["prod"] = "put" => pending' # NoFrame)
          /\ (pc'["prod"] # "put" => ProcessAudioNoEffect)]_vars

\* the manager was started again after the prober found the connection
\* lost: it runs with network_status false, and of the frames offered only
\* the first was taken in
C15_Witness ==
  /\ state.running
  /\ ~stop_event
  /\ ~state.network_status
  /\ nframes = MaxFrames
  /\ Len(accepted) = 1
  /\ pc["prod"] = "idle"

(* ------------------------------ on_error ------------------------------ *)
\* a text that names a network failure: it holds one of the listed
\* keywords, in whatever case
NetworkRelated(text) ==
  \E keyword \in network_errors : Contains(Lower(keyword), Lower(text))

\* C16 as stated: when on_error receives a message that names a network
\* failure and both callbacks are set, the network-error callback is invoked
\* once and the generic error callback is not invoked.
C16_NetworkErrorRouting ==
  [][(nerrors' # nerrors /\ NetworkRelated(error_msg')
        /\ bridge_callbacks.network_error /\ bridge_callbacks.error)
     => /\ network_error_calls' = network_error_calls + 1
        /\ bridge_error_calls' = bridge_error_calls]_vars

(* --------------------------- on_event: throttle ----------------------- *)
\* q2 is q with the event e put in once
PutOnce(q, q2, e) ==
  \E i \in DOMAIN q2 :
    /\ q2[i] = e
    /\ SubSeq(q2, 1, i - 1) \o SubSeq(q2, i + 1, Len(q2)) = q

\* C17: with a realtime callback registered, the k-th event with text of a
\* sentence id is handed to the realtime callback exactly when k exceeds
\* SENTENCE_ID_ATTACK, and every event with text, the first ones included,
\* is put on the result queue exactly once; an event with text that has no
\* sentence id is shown at once; an event without text is neither shown nor
\* queued.
C17_SettleThreshold ==
  [][nevents' # nevents =>
       LET queued == Len(arrived') = Len(arrived) + 1
           e == arrived'[Len(arrived')]
           k == Cardinality({i \in DOMAIN arrived' : arrived'[i].sid = e.sid})
           shown == realtime_calls' =
                      Append(realtime_calls, <<e.original, e.translated>>)
       IN  IF queued
           THEN /\ SubSeq(arrived', 1, Len(arrived)) = arrived
                /\ HasText(e.original, e.translated)
                /\ PutOnce(result_queue, result_queue', e)
                /\ IF e.sid \in SentenceIds
                   THEN /\ sentence_config'.counter[e.sid] = k
                        /\ IF k > SENTENCE_ID_ATTACK
                           THEN shown ELSE realtime_calls' = realtime_calls
                   ELSE shown /\ sentence_config' = sentence_config
           ELSE /\ arrived' = arrived
                /\ result_queue' = result_queue
                /\ realtime_calls' = realtime_calls
                /\ sentence_config' = sentence_config]_vars

\* three events with text came under one sentence id; the first two were
\* held back, the third was shown, and all three were queued
C17_Witness ==
  /\ Len(arrived) = SENTENCE_ID_ATTACK + 1
  /\ \A i \in DOMAIN arrived : arrived[i].sid = arrived[1].sid
  /\ arrived[1].sid \in SentenceIds
  /\ realtime_calls = << <<arrived[Len(arrived)].original,
                           arrived[Len(arrived)].translated>> >>
  /\ Len(result_queue) + Len(handed) = SENTENCE_ID_ATTACK + 1

(* ----------------------- on_event: malformed payloads ----------------- *)
\* C18 as stated: an error that a malformed payload raises in on_event is
\* caught there: no exception leaves on_event, and the event changes neither
\* the queue, the counters, the realtime output nor the state of the manager,
\* and starts no stop().
C18_MalformedEventIsContained ==
  /\ [](event_raised = 0)
  /\ [][(event_error_logs' # event_error_logs \/ event_raised' # event_raised)
        => UNCHANGED <<result_queue, sentence_config, realtime_calls, arrived,
                       state, stop_event, pc, upc, is_running>>]_vars

(* -------------------- the startup connectivity check ------------------ *)
\* an invocation has returned after all its checks failed
ReturnedFailed == cpc = "idle" /\ check_result = "False"

\* C19 as stated: when every connectivity check fails,
\* _check_initial_connection makes CONNECTION_CHECK_RETRIES attempts, sleeps
\* between consecutive attempts only (CONNECTION_CHECK_RETRIES - 1 sleeps)
\* and returns False with is_connected false.
C19_RetryBound ==
  ReturnedFailed =>
    /\ check_attempts = CONNECTION_CHECK_RETRIES
    /\ check_sleeps = CONNECTION_CHECK_RETRIES - 1
    /\ ~is_connected

\* the modal boxes shown under the title connection_failed
ConnectionFailureDialogs ==
  SelectSeq(ui_state.dialogs, LAMBDA dlg : dlg.title = "connection_failed")

\* C20 as stated: on one unit whose connectivity checks always fail, after
\* any number of invocations of _check_initial_connection the
\* connection-failure dialog has been shown exactly once (the message centre
\* has no handler of critical messages, so that what it shows is a box).
C20_OneConnectionDialog ==
  (ReturnedFailed /\ ~ever_connected /\ ~ui_state.critical_callback)
    => Len(ConnectionFailureDialogs) = 1

\* the capture thread has opened its input stream
CaptureActive == rpc = "r_stream"

\* start() reads recorder.recording when its sleep is over
SettleTest == upc["main"] = "u_settle" /\ upc'["main"] # "u_settle"

\* C21 as stated: when capture has not become active by the end of the
\* settle delay, start() returns: it does not call the manager's start()
\* and creates neither the forwarding thread nor the result thread.
C21_AbortedStart ==
  [][(SettleTest /\ ~CaptureActive)
       => (upc'["main"] = "idle" /\ nstarts' = 0
           /\ upc'["process"] = "unborn" /\ upc'["result"] = "unborn")]_vars

\* the forwarding thread calls process_audio, or the result thread calls
\* get_result
ThreadTouchesPipeline ==
  \/ upc["process"] = "p_get" /\ nframes' # nframes
  \/ upc["result"] = "r_get" /\ upc'["result"] # "r_get"

\* stop() has joined both threads and goes on to the recorder, the manager,
\* the remaining results and the logger
TeardownBegun ==
  upc["main"] \in {"u_stop_recording", "u_stop_recording_join",
                   "u_translator_stop", "u_drain", "u_drain_record", "u_done"}

\* C22 as stated: once stop() has gone on from its two joins to stopping the recorder
\* and the manager, the forwarding thread makes no call of process_audio and
\* the result thread no call of get_result; the remaining results are saved
\* when the manager's stop() has returned, and the logger is closed as the
\* last step of stop().
C22_ThreadsBeforeResources ==
  /\ [][ThreadTouchesPipeline => ~TeardownBegun]_vars
  /\ [][(upc["main"] \in {"u_drain", "u_drain_record"}
            /\ upc'["main"] # upc["main"])
          => (nstops = 1 /\ pc["ui"] = "idle")]_vars
  /\ [][(upc["main"] # "new" /\ ~unit_log_closed /\ unit_log_closed')
          => (upc'["main"] = "u_done" /\ ~recording' /\ result_queue' = <<>>)]_vars

\* _on_error takes message, which the keywords class as a network error, on
\* a running unit, and does not drop it as a repetition
NetworkErrorWhileRunning(message) ==
  /\ upc["main"] = "idle" /\ cpc = "idle" /\ is_running
  /\ message \in network_error_keywords
  /\ ui_state' # ui_state
  /\ ui_state'.last_error = message /\ ui_state'.since_error = 0

\* the stops that errors have triggered: _handle_network_error shows the
\* message followed by INFO's network_error before it calls stop()
ErrorTriggeredStops ==
  Len(SelectSeq(ui_state.dialogs \o ui_state.callback_calls,
                LAMBDA dlg : Len(dlg.text) = 2))

\* _handle_network_error goes on from show_critical on a running unit
StopAfterNetworkError == epc = "dialog" /\ epc' = "idle" /\ is_running

\* C23 as stated: a network error handed to _on_error while the unit is
\* running makes stop() tear the session down (_on_error takes
\* _handle_network_error, whose stop() clears is_running, sets the stop
\* event and goes to its joins), and errors trigger stop() at most once on
\* one unit.
C23_NetworkErrorStopsSession ==
  /\ [][\A message \in UnitMessages :
          NetworkErrorWhileRunning(message) => epc' = "dialog"]_vars
  /\ [][StopAfterNetworkError
          => (~is_running' /\ unit_stop_event'
              /\ upc'["main"] = "u_join_process")]_vars
  /\ [](ErrorTriggeredStops <= 1)

\* the device _select_device prefers does not validate
PreferredFails ==
  /\ sd.query_ok
  /\ valid_input_devices(sd.devices) # {}
  /\ ~sd.devices[select_device(sd) + 1].valid

\* the other devices with input channels that validate
OthersThatValidate ==
  {i \in valid_input_devices(sd.devices) :
     i # select_device(sd) /\ sd.devices[i + 1].valid}

\* C24 as stated: when the preferred device fails validation and another
\* device with input channels validates, the recorder is built with
\* audio_device['id'] set to such a device, not to -1.
C24_FallbackDevice ==
  (recordings = 0 /\ PreferredFails /\ OthersThatValidate # {})
    => audio_device_id \in OthersThatValidate

\* C25: the capture thread calls sd.InputStream only with a device id other
\* than -1, and on a machine without input devices the id stays -1 and no
\* stream is opened in any turn of the loop.
C25_NoStreamWithoutDevice ==
  /\ [][stream_opens' > stream_opens => audio_device_id # -1]_vars
  /\ [](valid_input_devices(sd.devices) = {}
          => (audio_device_id = -1 /\ stream_opens = 0))

C25_Witness ==
  /\ valid_input_devices(sd.devices) = {}
  /\ Len(sd.devices) = MaxDevices
  /\ rpc = "dead" /\ retry_count = max_retries
  /\ audio_device_id = -1 /\ stream_opens = 0

\* C26 as stated: stop_recording waits for the capture thread for at most
\* stop_timeout seconds, also when the thread never ends.
C26_StopRecordingBounded ==
  spc = "waiting" => stop_waited <= stop_timeout

\* C27: one run of the capture thread opens a stream at most max_retries
\* times and sleeps retry_sleep seconds after every failure; when the
\* retries are used up it clears recording and ends, and a stream is opened
\* again only by a thread that a later start_recording starts.
C27_RetryLimit ==
  /\ [](stream_opens <= max_retries /\ slept = retry_sleep * retry_count)
  /\ []((rpc = "dead" /\ retry_count = max_retries) => ~recording)
  /\ [][stream_opens' # stream_opens
          => (rpc \in {"r_open", "unborn", "dead"}
              /\ (rpc = "r_open" => retry_count < max_retries))]_vars

C27_Witness ==
  /\ rpc = "dead" /\ ~recording
  /\ stream_opens = max_retries /\ retry_count = max_retries
  /\ slept = retry_sleep * max_retries
  /\ recordings = 1

\* the positions in sample_rates of the rates that validate
ValidatingProbes == {i \in 1..Len(sample_rates) : sample_rates[i] \in sd.rates}

\* C28: for a device without a default rate, SAMPLE_RATE is the first rate
\* of sample_rates that validates, and 16000 when none validates.
C28_NegotiatedRate ==
  (audio_device_id # -1 /\ sd.default_samplerate = 0)
    => SAMPLE_RATE = IF ValidatingProbes = {} THEN FallbackSampleRate
                     ELSE sample_rates[Lowest(ValidatingProbes)]

C28_Witness ==
  /\ audio_device_id # -1 /\ sd.default_samplerate = 0
  /\ sd.rates = {8000, 48000}
  /\ SAMPLE_RATE = 48000

\* C29 as stated: every fault the manager reports through callbacks['error']
\* (a failed send, a network error of the bridge, a lost heartbeat) is a
\* call of the unit's _on_error.
C29_FaultsReachOnError ==
  on_error_deliveries = error_calls

\* C30 as stated: the consumer threads call send_audio_frame only while
\* translator_status is "running": not after a deferred start that failed,
\* and not after the stop() of another thread has set "stopping" or
\* "stopped".
C30_SendOnlyWhileRunning ==
  [][(Len(send_log') > Len(send_log) /\ send_log'[Len(send_log')].by \in Consumers)
       => state.translator_status = "running"]_vars

(* --------------------------- concurrent stop() ------------------------ *)
\* a stop() of thread t is about to raise: Thread.join on the calling thread
\* (RuntimeError), or close() on a callback another stop() has set to None
\* (AttributeError)
StopRaises(t) ==
  \/ pc[t] = "stop_join" /\ Alive(threads.processing) /\ threads.processing = t
  \/ pc[t] = "stop_close_call" /\ callback = "None"

\* C31 as stated: however the stop() calls of the owner, of the callback
\* thread and of the consumer thread overlap, the recognizer's stop() and the
\* bridge's close() are each invoked at most once and no stop() raises.
C31_ConcurrentStopOnce ==
  /\ translator.stop_calls <= 1
  /\ close_calls <= 1
  /\ \A t \in Threads : ~StopRaises(t)

(* ---------------------- the buffer after stop() ----------------------- *)
\* the positions of a thread inside stop()
InStop == StopBody \cup {"stop_guard"}

\* a stop() has set the stop signal, no start() has followed it, and no
\* thread is inside stop()
StopHasReturned ==
  /\ stop_event
  /\ ~state.running
  /\ \A t \in Threads : pc[t] \notin InStop

\* C32 as stated: from the return of stop() to the next start() the audio
\* buffer is empty, also when a process_audio call overlapped the stop().
C32_BufferEmptyAfterStop ==
  StopHasReturned => audio_buffer = <<>>

(* ------------------------ start() after stop() ------------------------ *)
\* start() has returned after an earlier stop(): the manager is running, the
\* stop signal is clear and the owner is in neither call
Restarted ==
  /\ nstops >= 1
  /\ state.running
  /\ ~stop_event
  /\ pc["ui"] = "idle"

\* C33 as stated: after stop() followed by start() the recognizer is started
\* again and the consumer is not left paused, so that accepted frames are
\* sent.
C33_RestartResets ==
  Restarted => /\ translator.started
               /\ ~state.audio_processing_paused

(* ---------------------- stop() after an aborted start ----------------- *)
\* start() has returned from its abort branch: it has not called the
\* manager's start() and has created no thread
StartAborted ==
  /\ upc["main"] = "idle"
  /\ nstarts = 0
  /\ upc["process"] = "unborn"
  /\ upc["result"] = "unborn"

\* C34 as stated: after start() has aborted the unit is not running, and a
\* stop() that follows returns from its guard: it reaches no join, no
\* recognizer stop and no shutdown report.
C34_StopAfterAbortedStart ==
  /\ [](StartAborted => ~is_running)
  /\ [][(StartAborted /\ unit_stop_calls' # unit_stop_calls)
          => UNCHANGED <<upc, is_running, unit_stop_event, status_reports,
                         nstops, translator, unit_log_closed>>]_vars

(* --------------------------- the result flag -------------------------- *)
\* translator_unit.py:386-397: _save_all_results shows have_result when the
\* result file exists and has_result is set; the file is there when a pair
\* has been written to it
ShowsHaveResult == Len(records) >= 1 /\ has_result

\* C35 as stated: when stop() has returned, has_result is true and the UI
\* has shown have_result exactly when the session recorded a pair, whether
\* by commit-on-next, by the flush of the last sentence or by the drain.
C35_HasResultIffRecorded ==
  upc["main"] = "u_done"
    => /\ has_result <=> Len(records) >= 1
       /\ ShowsHaveResult <=> Len(records) >= 1

(* ------------------------- stop checks of loops ----------------------- *)
\* the capture thread comes back to its loop condition
BackAtLoopTest == rpc \in {"r_loop", "r_open"} /\ rpc' = "r_loop"

\* C36 as stated, for the capture retry loop: from one test of the stop
\* condition to the next the thread sleeps one second at most.
C36_StopCheckedEverySecond ==
  [][BackAtLoopTest => slept' - slept <= 1]_vars

(* ---------------------- deduplication of notifications ---------------- *)
\* the earlier calls of the method of call i that invoked the callback
DeliveredBefore(i) ==
  {j \in 1..(i - 1) : /\ notify_log[j].tier = notify_log[i].tier
                      /\ notify_log[j].delivered}

\* the last of them
LastDelivery(i) ==
  CHOOSE j \in DeliveredBefore(i) : \A k \in DeliveredBefore(i) : k <= j

\* call i repeats the message its method delivered last, less than 5 s
\* after that delivery
RepeatInsideCooldown(i) ==
  /\ DeliveredBefore(i) # {}
  /\ notify_log[LastDelivery(i)].message = notify_log[i].message
  /\ notify_log[i].at - notify_log[LastDelivery(i)].at < 5

\* the message the last delivered call of a method carried
LastDelivered(tier) ==
  LET n == Len(notify_log) + 1
      log == Append(notify_log, [tier |-> tier, message |-> "",
                                 at |-> now, delivered |-> FALSE])
      before == {j \in 1..(n - 1) : log[j].tier = tier /\ log[j].delivered}
  IN  IF before = {} THEN ""
      ELSE log[CHOOSE j \in before : \A k \in before : k <= j].message

\* C37: a call of send_error_notification or send_warning_notification is
\* suppressed exactly when it repeats the message the same method delivered
\* last and less than 5 s have passed since that delivery; a delivered
\* message becomes the last message of its method; what the other method
\* delivered plays no part.
C37_DedupPerTier ==
  /\ \A i \in DOMAIN notify_log :
       notify_log[i].delivered <=> ~RepeatInsideCooldown(i)
  /\ message_deduplication.last_error_message = LastDelivered("error")
  /\ message_deduplication.last_warning_message = LastDelivered("warning")

\* an error was delivered, suppressed when it was repeated inside the
\* cooldown, and delivered again when it was repeated 5 s after the delivery
C37_Witness ==
  /\ Len(notify_log) = 3
  /\ \A i \in 1..3 : /\ notify_log[i].message = "connection lost"
                     /\ notify_log[i].tier = "error"
  /\ notify_log[1].delivered
  /\ ~notify_log[2].delivered
  /\ notify_log[3].delivered
  /\ notify_log[3].at = notify_log[1].at + 5

(* --------------------------- device fallback -------------------------- *)
\* the id that follows id in the list of input devices, wrapping at its end
CyclicNext(env, id) ==
  LET valid == valid_input_devices(env.devices)
      later == {i \in valid : i > id}
  IN  IF later # {} THEN Lowest(later) ELSE Lowest(valid)

\* a stream open failed and the capture thread is back at its loop test
OpenFailed == rpc = "r_open" /\ rpc' = "r_loop"

\* C38 as stated: after every failed open the device is the next one of the
\* list of input devices, wrapping at the end, so that k failed opens in a
\* row go through the k devices of the list.
C38_RoundRobin ==
  [][(/\ OpenFailed
      /\ sd.query_ok
      /\ audio_device_id \in valid_input_devices(sd.devices))
       => audio_device_id' = CyclicNext(sd, audio_device_id)]_vars

\* a text that holds an entry of the keyword list, letter for letter
HoldsKeyword(text) ==
  \E keyword \in network_errors : Contains(keyword, text)

\* C39 as stated: a message that contains any entry of on_error's keyword
\* list is classified as a network error and handed to the network-error
\* callback when one is registered.
C39_KeywordListRouting ==
  [][(nerrors' # nerrors /\ HoldsKeyword(error_msg')
        /\ bridge_callbacks.network_error)
     => network_error_calls' = network_error_calls + 1]_vars

====
